---- MODULE Spec2Model ----
(***************************************************************************)
(* Verification model of the roma trading backend: the agent scheduler and *)
(* worker loop (agents/scheduler.py), the execution gate                   *)
(* (services/trade_execution_service.py), the trading cycle and the        *)
(* open/close sizing of TradingAgent (agents/trading_agent.py) and the     *)
(* ledger and equity reconciliation of DecisionLogger                      *)
(* (core/decision_logger.py) over its storage back ends.                   *)
(*                                                                         *)
(* The specifications of the module:                                       *)
(*   Spec / LiveSpec : scheduler, workers, tickers, gate, manual closes    *)
(*   GateSpec / GateLiveSpec : the gate's semaphore with its waiter queue  *)
(*   SizingSpec      : open-order sizing as a function of its inputs       *)
(*   AcctSpec        : one agent's ledger, trade history and reconciler    *)
(*   CloseSpec       : the same agent with close_position_manual calls     *)
(*   DecisionSpec    : steps 7-8 of a cycle: parse, execute, log           *)
(***************************************************************************)
EXTENDS Integers, Sequences, FiniteSets, TLC

\* ------------------------------------------------------------------------
\* Bounds of the model and program constants
\* ------------------------------------------------------------------------

\* the configured agents (AgentScheduler.start receives a dict of agents)
Agents == {"a1", "a2"}

\* TradeExecutionService(max_concurrent_trades = 1)
GateCapacity == 1

\* trigger() calls made by the tickers and by AgentScheduler.trigger, in total
MaxTriggerCalls == 2

\* close_position_manual calls made by the operator, in total
MaxCloseCalls == 1

\* cycles and orders of an accounting run
MaxCycles == 3
MaxOrders == 2

\* length of the decision model's output, in tokens
MaxOutputLen == 5

VARIABLES
    \* --- AgentScheduler
    schedPc,        \* "new" | "running" | "stop_tickers" | "stop_workers" | "stopped"
    tick,           \* per agent: ticker task "none" | "start" | "sleeping" | "ready" | "cancelling" | "done"
    stopPc,         \* per agent: worker.stop() call "none" | "pending" | "awaiting" | "returned"
    \* --- AgentWorker
    trig,           \* per agent: _trigger event is set
    stopFlag,       \* per agent: _stop_event is set
    wpc,            \* per agent: _run task "none" | "waiting" | "cycle" | "yield" | "caught_error" | "caught_timeout" | "done"
    is_running,     \* per agent: agent.is_running
    \* --- TradingAgent.trading_cycle / close_position_manual
    cycle_count,    \* per agent: agent.cycle_count
    cyc,            \* per agent: position of the in-flight trading_cycle
    inFlight,       \* per agent: number of trading_cycle calls started and not ended
    man,            \* per agent: position of a close_position_manual call
    \* --- TradeExecutionService / trading_lock
    gateValue,      \* free slots of the semaphore
    lockHeld,       \* the shared trading_lock is held
    \* --- history
    trigCalls,      \* trigger() calls made by the tickers and by scheduler.trigger
    batches,        \* per agent: times trigger() turned the flag from clear to set
    closeCalls,     \* close_position_manual calls made
    \* --- open-order sizing (SizingSpec)
    szIn,           \* the decision, account, positions, price and risk configuration
    szOut,          \* what _execute_open_long / _execute_open_short did with them
    \* --- one agent's accounting (AcctSpec)
    acRun,          \* the agent: position in the cycle, cycle_count, fetched account
    logger_module,  \* the DecisionLogger: open_positions and the reconciler's state
    storage,        \* the stored trades, EquityPoints and decision logs, and the backend
    pending,        \* writes handed to create_task that have not run yet
    dexPos,         \* the exchange's net position in the symbol (short is negative)
    \* --- the gate's semaphore with its queue (GateSpec)
    semq,           \* per caller of guard(): "idle" | "waiting" | "granted" | "inside"
    semValue,       \* Semaphore._value
    semWaiters,     \* Semaphore._waiters: the callers whose acquire() is queued
    \* --- steps 7-8 of a trading cycle (DecisionSpec)
    llmOut,         \* result.decisions_json, as a sequence of tokens
    decRun,         \* the parsed decisions, the position in them, what was done
    \* --- one open decision from sizing to the protective orders (OpenSpec)
    opRun,          \* position in _execute_open_*, the ledger, the orders placed
    \* --- the gate, the trading locks and the LLM slots together (LockSpec)
    lkCfg,          \* how the agents were constructed: capacities, locks, providers
    lkPc,           \* per caller: position in trading_cycle / close_position_manual
    lkGate,         \* free slots of the execution gate
    lkLock,         \* the trading locks that are held
    lkLlm,          \* per LLMClientFactory: its free slots
    \* --- history
    ghost,          \* the reconciler of the same run had it never been restarted
    hist,           \* per side: quantity opened and closed since the process started;
                    \* per recorded trade: the reconciliations that included it
    recon           \* what the last log_decision computed, None before the first

concVars == <<schedPc, tick, stopPc, trig, stopFlag, wpc, is_running, cycle_count,
              cyc, inFlight, man, gateValue, lockHeld, trigCalls, batches, closeCalls>>

sizeVars == <<szIn, szOut>>

acctVars == <<acRun, logger_module, storage, pending, dexPos, ghost, hist, recon>>

\* the scheduler's and workers' variables without the gate's counter
concRest == <<schedPc, tick, stopPc, trig, stopFlag, wpc, is_running, cycle_count,
              cyc, inFlight, man, lockHeld, trigCalls, batches, closeCalls>>

\* the same without the count of close_position_manual calls
concRestCalls == <<schedPc, tick, stopPc, trig, stopFlag, wpc, is_running,
                   cycle_count, cyc, inFlight, man, lockHeld, trigCalls, batches>>

semVars == <<semq, semValue, semWaiters>>

decVars == <<llmOut, decRun>>

openVars == <<opRun>>

lkVars == <<lkCfg, lkPc, lkGate, lkLock, lkLlm>>

dataVars == <<sizeVars, acctVars, semVars, decVars, openVars, lkVars>>

vars == <<concVars, dataVars>>

\* ------------------------------------------------------------------------
\* Exact arithmetic: a number is a fraction <<n, d>> in lowest terms, d > 0.
\* Amounts are in USD, quantities in coins, prices in USD per coin.
\* ------------------------------------------------------------------------

Abs(x) == IF x < 0 THEN -x ELSE x

RECURSIVE GCD(_, _)
GCD(a, b) == IF b = 0 THEN a ELSE GCD(b, a % b)

LCM(a, b) == (a \div GCD(a, b)) * b

Frac(n, d) ==
    LET g == GCD(Abs(n), d)
    IN  IF g = 0 THEN <<0, 1>> ELSE <<n \div g, d \div g>>

R(n) == <<n, 1>>

RAdd(x, y) ==
    LET l == LCM(x[2], y[2])
    IN  Frac(x[1] * (l \div x[2]) + y[1] * (l \div y[2]), l)

RNeg(x) == <<-x[1], x[2]>>

RSub(x, y) == RAdd(x, RNeg(y))

RMul(x, y) ==
    LET g1 == GCD(Abs(x[1]), y[2])
        g2 == GCD(Abs(y[1]), x[2])
        h1 == IF g1 = 0 THEN 1 ELSE g1
        h2 == IF g2 = 0 THEN 1 ELSE g2
    IN  Frac((x[1] \div h1) * (y[1] \div h2), (x[2] \div h2) * (y[2] \div h1))

\* x / y for y # 0
RDiv(x, y) ==
    IF y[1] > 0 THEN RMul(x, <<y[2], y[1]>>) ELSE RMul(x, <<-y[2], -y[1]>>)

RLt(x, y) ==
    LET l == LCM(x[2], y[2])
    IN  x[1] * (l \div x[2]) < y[1] * (l \div y[2])

RLe(x, y) == ~RLt(y, x)

RMin(x, y) == IF RLt(y, x) THEN y ELSE x

RMax(x, y) == IF RLt(x, y) THEN y ELSE x

RAbs(x) == <<Abs(x[1]), x[2]>>

\* the nearest integer to x, ties to the even one (Python's round)
RoundHalfEven(x) ==
    LET f == x[1] \div x[2]
        r == x[1] - f * x[2]
    IN  IF 2 * r < x[2] THEN f
        ELSE IF 2 * r > x[2] THEN f + 1
        ELSE IF f % 2 = 0 THEN f ELSE f + 1

\* round(x, 3)
Round3(x) == Frac(RoundHalfEven(RMul(x, R(1000))), 1000)

\* ------------------------------------------------------------------------
\* TradeExecutionService.guard
\* ------------------------------------------------------------------------

\* positions of a trading cycle inside the guard() body
CycInside == {"locking", "fetch", "decide", "execute"}

\* positions of a manual close inside the guard() body
ManInside == {"locking", "closing"}

\* number of callers inside the guard() body
InsideGuard ==
    Cardinality({a \in Agents : cyc[a] \in CycInside})
    + Cardinality({a \in Agents : man[a] \in ManInside})

\* mutant: a slot is handed out without looking at the counter
GateCanAcquire_Unchecked == TRUE

\* Semaphore.acquire() returns only when a slot is free
GateCanAcquire == gateValue > 0

\* wait_for(..., timeout): the acquire is abandoned after timeout_seconds of
\* waiting, which needs every slot to be taken
GateCanTimeout == gateValue = 0

\* ------------------------------------------------------------------------
\* The semaphore behind guard(), with the queue of its waiters (GateSpec).
\* acquire() takes a slot at once when none is queued, else queues a future;
\* release() hands the slot to the first queued future that is not done.
\* ------------------------------------------------------------------------

\* the callers of guard(): each agent's trading_cycle and close_position_manual
GateCallers == Agents \X {"trading_cycle", "close_position_manual"}

SemInit ==
    /\ semq = [c \in GateCallers |-> "idle"]
    /\ semValue = GateCapacity
    /\ semWaiters = <<>>

\* the queue without caller c
SemRemove(q, c) == SelectSeq(q, LAMBDA x : x # c)

\* the first queued caller whose future is not done, None if there is none
SemFirstWaiting(q, st) ==
    LET w == SelectSeq(q, LAMBDA x : st[x] = "waiting")
    IN  IF w = <<>> THEN <<>> ELSE w[1]

\* guard() is entered: `await wait_for(self._semaphore.acquire(), timeout)`
GuardEnter(c) ==
    /\ semq[c] = "idle"
    /\ IF semValue > 0 /\ semWaiters = <<>>
         THEN /\ semValue' = semValue - 1
              /\ semq' = [semq EXCEPT ![c] = "inside"]
              /\ UNCHANGED semWaiters
         ELSE /\ semWaiters' = Append(semWaiters, c)
              /\ semq' = [semq EXCEPT ![c] = "waiting"]
              /\ UNCHANGED semValue
    /\ UNCHANGED <<concVars, sizeVars, acctVars, decVars, openVars, lkVars>>

\* guard()'s finally: release() adds the slot and wakes the first waiter,
\* which takes the slot with it
GuardRelease(c) ==
    /\ semq[c] = "inside"
    /\ LET n == SemFirstWaiting(semWaiters, semq)
       IN  IF n = <<>>
             THEN /\ semValue' = semValue + 1
                  /\ semq' = [semq EXCEPT ![c] = "idle"]
             ELSE /\ semValue' = semValue
                  /\ semq' = [semq EXCEPT ![c] = "idle", ![n] = "granted"]
    /\ UNCHANGED semWaiters
    /\ UNCHANGED <<concVars, sizeVars, acctVars, decVars, openVars, lkVars>>

\* the woken acquire() resumes, leaves the queue and returns: the body runs
GuardResume(c) ==
    /\ semq[c] = "granted"
    /\ semWaiters' = SemRemove(semWaiters, c)
    /\ semq' = [semq EXCEPT ![c] = "inside"]
    /\ UNCHANGED semValue
    /\ UNCHANGED <<concVars, sizeVars, acctVars, decVars, openVars, lkVars>>

\* wait_for times out and cancels the acquire(): the caller leaves the queue
\* and guard() raises; a slot that had just been handed to it is passed on
GuardTimeout(c) ==
    /\ semq[c] \in {"waiting", "granted"}
    /\ semWaiters' = SemRemove(semWaiters, c)
    /\ LET n == SemFirstWaiting(SemRemove(semWaiters, c), semq)
       IN  IF semq[c] = "waiting"
             THEN /\ semq' = [semq EXCEPT ![c] = "idle"]
                  /\ UNCHANGED semValue
             ELSE IF n = <<>>
               THEN /\ semValue' = semValue + 1
                    /\ semq' = [semq EXCEPT ![c] = "idle"]
               ELSE /\ semValue' = semValue
                    /\ semq' = [semq EXCEPT ![c] = "idle", ![n] = "granted"]
    /\ UNCHANGED <<concVars, sizeVars, acctVars, decVars, openVars, lkVars>>

\* ------------------------------------------------------------------------
\* The three resources of a cycle and of a manual close together:
\* TradeExecutionService.guard, TradingAgent.trading_lock and
\* LLMClientFactory.request_slot
\* ------------------------------------------------------------------------

\* config["llm"]["provider"] of an agent
Providers == {"deepseek", "openai"}

\* max_concurrent_trades of the TradeExecutionService the agents share
LkGateCapacities == {1, 2}

\* max_concurrent_requests of an LLMClientFactory (4 when it is not given)
LkLlmCapacities == {1, 4}

\* the agents are given one llm_factory, or each makes its own
FactoryOf(a) == IF lkCfg.shared_factory THEN "shared" ELSE a

\* the agents are given one trading_lock, or each makes its own
LockOf(a) == IF lkCfg.shared_lock THEN "shared" ELSE a

LkCycle(a) == <<a, "trading_cycle">>

LkManual(a) == <<a, "close_position_manual">>

\* the resources are not in use (the other specifications)
LkIdle ==
    /\ lkCfg = <<>>
    /\ lkPc = <<>>
    /\ lkGate = 0
    /\ lkLock = {}
    /\ lkLlm = <<>>

LkInit ==
    /\ lkCfg \in [max_concurrent_trades : LkGateCapacities,
                  max_concurrent_requests : LkLlmCapacities,
                  shared_lock : BOOLEAN,
                  shared_factory : BOOLEAN,
                  provider : [Agents -> Providers]]
    /\ lkPc = [c \in GateCallers |-> "idle"]
    /\ lkGate = lkCfg.max_concurrent_trades
    /\ lkLock = {}
    /\ lkLlm = [f \in {FactoryOf(a) : a \in Agents} |-> lkCfg.max_concurrent_requests]

LkOthers == <<concVars, sizeVars, acctVars, semVars, decVars, openVars>>

\* trading_cycle or close_position_manual is called and reaches guard()
LkCall(c) ==
    /\ lkPc[c] = "idle"
    /\ lkPc' = [lkPc EXCEPT ![c] = "gate_wait"]
    /\ UNCHANGED <<lkCfg, lkGate, lkLock, lkLlm>>
    /\ UNCHANGED LkOthers

\* guard(): the semaphore is acquired
LkAcquire(c) ==
    /\ lkPc[c] = "gate_wait"
    /\ lkGate > 0
    /\ lkGate' = lkGate - 1
    /\ lkPc' = [lkPc EXCEPT ![c] = "locking"]
    /\ UNCHANGED <<lkCfg, lkLock, lkLlm>>
    /\ UNCHANGED LkOthers

\* guard(): wait_for times out and RuntimeError ends the call
LkTimeout(c) ==
    /\ lkPc[c] = "gate_wait"
    /\ lkGate = 0
    /\ lkPc' = [lkPc EXCEPT ![c] = "idle"]
    /\ UNCHANGED <<lkCfg, lkGate, lkLock, lkLlm>>
    /\ UNCHANGED LkOthers

\* trading_cycle: `async with self.trading_lock:` around the debug log; the
\* lock is taken and released without a suspension in between
LkCycleLock(a) ==
    /\ lkPc[LkCycle(a)] = "locking"
    /\ LockOf(a) \notin lkLock
    /\ lkPc' = [lkPc EXCEPT ![LkCycle(a)] = "fetch"]
    /\ UNCHANGED <<lkCfg, lkGate, lkLock, lkLlm>>
    /\ UNCHANGED LkOthers

\* trading_cycle steps 1-5, up to request_slot()
LkFetch(a) ==
    /\ lkPc[LkCycle(a)] = "fetch"
    /\ lkPc' = [lkPc EXCEPT ![LkCycle(a)] = "llm_wait"]
    /\ UNCHANGED <<lkCfg, lkGate, lkLock, lkLlm>>
    /\ UNCHANGED LkOthers

\* request_slot(): `await self._semaphore.acquire()`, whatever the provider
LkLlmAcquire(a) ==
    /\ lkPc[LkCycle(a)] = "llm_wait"
    /\ lkLlm[FactoryOf(a)] > 0
    /\ lkLlm' = [lkLlm EXCEPT ![FactoryOf(a)] = @ - 1]
    /\ lkPc' = [lkPc EXCEPT ![LkCycle(a)] = "llm"]
    /\ UNCHANGED <<lkCfg, lkGate, lkLock>>
    /\ UNCHANGED LkOthers

\* mutant: request_slot() without the finally clause, the decision module
\* raises and the slot stays taken
LkLlmRelease_Leaks(a, raises) ==
    /\ lkPc[LkCycle(a)] = "llm"
    /\ lkLlm' = IF raises THEN lkLlm ELSE [lkLlm EXCEPT ![FactoryOf(a)] = @ + 1]
    /\ lkGate' = IF raises THEN lkGate + 1 ELSE lkGate
    /\ lkPc' = [lkPc EXCEPT ![LkCycle(a)] = IF raises THEN "idle" ELSE "execute"]
    /\ UNCHANGED <<lkCfg, lkLock>>
    /\ UNCHANGED LkOthers

\* the decision module returns or raises: request_slot() releases the slot;
\* what was raised leaves guard() too
LkLlmRelease(a, raises) ==
    /\ lkPc[LkCycle(a)] = "llm"
    /\ lkLlm' = [lkLlm EXCEPT ![FactoryOf(a)] = @ + 1]
    /\ lkGate' = IF raises THEN lkGate + 1 ELSE lkGate
    /\ lkPc' = [lkPc EXCEPT ![LkCycle(a)] = IF raises THEN "idle" ELSE "execute"]
    /\ UNCHANGED <<lkCfg, lkLock>>
    /\ UNCHANGED LkOthers

\* trading_cycle steps 7-8 and the end of guard(), or an exception in steps
\* 1-5 or 7: the slot is released
LkCycleEnd(a) ==
    /\ lkPc[LkCycle(a)] \in {"fetch", "execute"}
    /\ lkGate' = lkGate + 1
    /\ lkPc' = [lkPc EXCEPT ![LkCycle(a)] = "idle"]
    /\ UNCHANGED <<lkCfg, lkLock, lkLlm>>
    /\ UNCHANGED LkOthers

\* close_position_manual: `async with self.trading_lock:` around
\* _execute_close
LkManualLock(a) ==
    /\ lkPc[LkManual(a)] = "locking"
    /\ LockOf(a) \notin lkLock
    /\ lkLock' = lkLock \cup {LockOf(a)}
    /\ lkPc' = [lkPc EXCEPT ![LkManual(a)] = "closing"]
    /\ UNCHANGED <<lkCfg, lkGate, lkLlm>>
    /\ UNCHANGED LkOthers

\* _execute_close returns or raises: lock and slot are released
LkManualEnd(a) ==
    /\ lkPc[LkManual(a)] = "closing"
    /\ lkLock' = lkLock \ {LockOf(a)}
    /\ lkGate' = lkGate + 1
    /\ lkPc' = [lkPc EXCEPT ![LkManual(a)] = "idle"]
    /\ UNCHANGED <<lkCfg, lkLlm>>
    /\ UNCHANGED LkOthers

\* a step of a call that has started
LkAdvance(c) ==
    \/ LkAcquire(c)
    \/ LkTimeout(c)
    \/ /\ c[2] = "trading_cycle"
       /\ \/ LkCycleLock(c[1])
          \/ LkFetch(c[1])
          \/ LkLlmAcquire(c[1])
          \/ \E raises \in BOOLEAN : LkLlmRelease(c[1], raises)
          \/ LkCycleEnd(c[1])
    \/ /\ c[2] = "close_position_manual"
       /\ \/ LkManualLock(c[1])
          \/ LkManualEnd(c[1])

LockNext == \E c \in GateCallers : LkCall(c) \/ LkAdvance(c)

\* ------------------------------------------------------------------------
\* AgentWorker
\* ------------------------------------------------------------------------

\* mutant: a trigger that arrives while a cycle runs is dropped
Trigger_DroppedWhileRunning(a) ==
    /\ trig' = [trig EXCEPT ![a] = (wpc[a] # "cycle")]
    /\ batches' = [batches EXCEPT ![a] = IF trig[a] THEN @ ELSE @ + 1]

\* AgentWorker.trigger: set the event
Trigger(a) ==
    /\ trig' = [trig EXCEPT ![a] = TRUE]
    /\ batches' = [batches EXCEPT ![a] = IF trig[a] THEN @ ELSE @ + 1]

\* mutant: a set trigger starts a cycle although one is still awaited
WorkerCanWake_WhileRunning(a) == wpc[a] \in {"waiting", "cycle"} /\ trig[a]

\* the _run task resumes from `await self._trigger.wait()`
WorkerCanWake(a) == wpc[a] = "waiting" /\ trig[a]

\* the check the worker makes after a cycle returned
AfterCycle(a) == IF stopFlag[a] THEN "done" ELSE "yield"

\* positions of _run after `except Exception` caught and logged what the
\* cycle raised: an exception of a collaborator, or guard()'s RuntimeError
Caught == {"caught_error", "caught_timeout"}

\* `except Exception` logged exc; the same check follows
AfterRaise(a, exc) == IF stopFlag[a] THEN "done" ELSE exc

\* mutant: the stop flag is not tested between the clear and the cycle
WorkerWake_NoStopCheck(a) ==
    /\ WorkerCanWake(a)
    /\ trig' = [trig EXCEPT ![a] = FALSE]
    /\ wpc' = [wpc EXCEPT ![a] = "cycle"]
    /\ cycle_count' = [cycle_count EXCEPT ![a] = @ + 1]
    /\ inFlight' = [inFlight EXCEPT ![a] = @ + 1]
    /\ cyc' = [cyc EXCEPT ![a] = "gate_wait"]
    /\ UNCHANGED <<schedPc, tick, stopPc, stopFlag, is_running, man, gateValue,
                   lockHeld, trigCalls, batches, closeCalls>>
    /\ UNCHANGED dataVars

\* _run: wake, clear the trigger, observe stop or start one trading_cycle
\* (trading_cycle runs up to its first suspension, the wait for the gate)
WorkerWake(a) ==
    /\ WorkerCanWake(a)
    /\ trig' = [trig EXCEPT ![a] = FALSE]
    /\ IF stopFlag[a]
         THEN /\ wpc' = [wpc EXCEPT ![a] = "done"]
              /\ UNCHANGED <<cycle_count, cyc, inFlight>>
         ELSE /\ wpc' = [wpc EXCEPT ![a] = "cycle"]
              /\ cycle_count' = [cycle_count EXCEPT ![a] = @ + 1]
              /\ inFlight' = [inFlight EXCEPT ![a] = @ + 1]
              /\ cyc' = [cyc EXCEPT ![a] = "gate_wait"]
    /\ UNCHANGED <<schedPc, tick, stopPc, stopFlag, is_running, man, gateValue,
                   lockHeld, trigCalls, batches, closeCalls>>
    /\ UNCHANGED dataVars

\* _run: resume from `await asyncio.sleep(0)` and test the loop condition
WorkerYield(a) ==
    /\ wpc[a] \in {"yield"} \cup Caught
    /\ wpc' = [wpc EXCEPT ![a] = IF stopFlag[a] THEN "done" ELSE "waiting"]
    /\ UNCHANGED <<schedPc, tick, stopPc, trig, stopFlag, is_running, cycle_count,
                   cyc, inFlight, man, gateValue, lockHeld, trigCalls, batches,
                   closeCalls>>
    /\ UNCHANGED dataVars

\* ------------------------------------------------------------------------
\* TradingAgent.trading_cycle
\* ------------------------------------------------------------------------

\* the cycle returns to _run
CycleEnds(a) ==
    /\ cyc' = [cyc EXCEPT ![a] = "none"]
    /\ inFlight' = [inFlight EXCEPT ![a] = @ - 1]
    /\ wpc' = [wpc EXCEPT ![a] = AfterCycle(a)]

\* mutant: the exception is not caught and ends the _run task
CycleRaises_Uncaught(a, exc) ==
    /\ cyc' = [cyc EXCEPT ![a] = "none"]
    /\ inFlight' = [inFlight EXCEPT ![a] = @ - 1]
    /\ wpc' = [wpc EXCEPT ![a] = "crashed"]

\* the cycle raises: the exception is caught by _run's `except Exception`
CycleRaises(a, exc) ==
    /\ cyc' = [cyc EXCEPT ![a] = "none"]
    /\ inFlight' = [inFlight EXCEPT ![a] = @ - 1]
    /\ wpc' = [wpc EXCEPT ![a] = AfterRaise(a, exc)]

\* guard(): the semaphore is acquired
CycleAcquire(a) ==
    /\ cyc[a] = "gate_wait"
    /\ GateCanAcquire
    /\ gateValue' = gateValue - 1
    /\ cyc' = [cyc EXCEPT ![a] = "locking"]
    /\ UNCHANGED <<schedPc, tick, stopPc, trig, stopFlag, wpc, is_running,
                   cycle_count, inFlight, man, lockHeld, trigCalls, batches,
                   closeCalls>>
    /\ UNCHANGED dataVars

\* mutant: the timeout is swallowed and the body runs without a slot
CycleTimeout_Proceeds(a) ==
    /\ cyc[a] = "gate_wait"
    /\ GateCanTimeout
    /\ cyc' = [cyc EXCEPT ![a] = "locking"]
    /\ UNCHANGED <<schedPc, tick, stopPc, trig, stopFlag, wpc, is_running,
                   cycle_count, inFlight, man, gateValue, lockHeld, trigCalls,
                   batches, closeCalls>>
    /\ UNCHANGED dataVars

\* guard(): wait_for times out, RuntimeError is raised, no slot was taken
CycleTimeout(a) ==
    /\ cyc[a] = "gate_wait"
    /\ GateCanTimeout
    /\ CycleRaises(a, "caught_timeout")
    /\ UNCHANGED <<schedPc, tick, stopPc, trig, stopFlag, is_running, cycle_count,
                   man, gateValue, lockHeld, trigCalls, batches, closeCalls>>
    /\ UNCHANGED dataVars

\* `async with self.trading_lock:` around the debug log only: the lock is
\* taken and released again without a suspension in between
CycleLock(a) ==
    /\ cyc[a] = "locking"
    /\ ~lockHeld
    /\ cyc' = [cyc EXCEPT ![a] = "fetch"]
    /\ UNCHANGED <<schedPc, tick, stopPc, trig, stopFlag, wpc, is_running,
                   cycle_count, inFlight, man, gateValue, lockHeld, trigCalls,
                   batches, closeCalls>>
    /\ UNCHANGED dataVars

\* steps 1-5: cancel stale orders, fetch account, positions and market data
CycleFetch(a) ==
    /\ cyc[a] = "fetch"
    /\ cyc' = [cyc EXCEPT ![a] = "decide"]
    /\ UNCHANGED <<schedPc, tick, stopPc, trig, stopFlag, wpc, is_running,
                   cycle_count, inFlight, man, gateValue, lockHeld, trigCalls,
                   batches, closeCalls>>
    /\ UNCHANGED dataVars

\* step 6: the decision module is called
CycleDecide(a) ==
    /\ cyc[a] = "decide"
    /\ cyc' = [cyc EXCEPT ![a] = "execute"]
    /\ UNCHANGED <<schedPc, tick, stopPc, trig, stopFlag, wpc, is_running,
                   cycle_count, inFlight, man, gateValue, lockHeld, trigCalls,
                   batches, closeCalls>>
    /\ UNCHANGED dataVars

\* steps 7-8: decisions executed and logged; guard() releases the slot
CycleFinish(a) ==
    /\ cyc[a] = "execute"
    /\ gateValue' = gateValue + 1
    /\ CycleEnds(a)
    /\ UNCHANGED <<schedPc, tick, stopPc, trig, stopFlag, is_running, cycle_count,
                   man, lockHeld, trigCalls, batches, closeCalls>>
    /\ UNCHANGED dataVars

\* mutant: the exception leaves guard() without the finally clause
CycleFail_NoRelease(a) ==
    /\ cyc[a] \in {"fetch", "decide", "execute"}
    /\ CycleRaises(a, "caught_error")
    /\ UNCHANGED <<schedPc, tick, stopPc, trig, stopFlag, is_running, cycle_count,
                   man, gateValue, lockHeld, trigCalls, batches, closeCalls>>
    /\ UNCHANGED dataVars

\* an exception raised by a collaborator inside the guard: the finally
\* clause releases the slot and the exception reaches _run's except
CycleFail(a) ==
    /\ cyc[a] \in {"fetch", "decide", "execute"}
    /\ gateValue' = gateValue + 1
    /\ CycleRaises(a, "caught_error")
    /\ UNCHANGED <<schedPc, tick, stopPc, trig, stopFlag, is_running, cycle_count,
                   man, lockHeld, trigCalls, batches, closeCalls>>
    /\ UNCHANGED dataVars

\* ------------------------------------------------------------------------
\* TradingAgent.close_position_manual
\* ------------------------------------------------------------------------

ManualCall(a) ==
    /\ man[a] = "none"
    /\ closeCalls < MaxCloseCalls
    /\ closeCalls' = closeCalls + 1
    /\ man' = [man EXCEPT ![a] = "gate_wait"]
    /\ UNCHANGED <<schedPc, tick, stopPc, trig, stopFlag, wpc, is_running,
                   cycle_count, cyc, inFlight, gateValue, lockHeld, trigCalls,
                   batches>>
    /\ UNCHANGED dataVars

ManualAcquire(a) ==
    /\ man[a] = "gate_wait"
    /\ GateCanAcquire
    /\ gateValue' = gateValue - 1
    /\ man' = [man EXCEPT ![a] = "locking"]
    /\ UNCHANGED <<schedPc, tick, stopPc, trig, stopFlag, wpc, is_running,
                   cycle_count, cyc, inFlight, lockHeld, trigCalls, batches,
                   closeCalls>>
    /\ UNCHANGED dataVars

ManualTimeout(a) ==
    /\ man[a] = "gate_wait"
    /\ GateCanTimeout
    /\ man' = [man EXCEPT ![a] = "none"]
    /\ UNCHANGED <<schedPc, tick, stopPc, trig, stopFlag, wpc, is_running,
                   cycle_count, cyc, inFlight, gateValue, lockHeld, trigCalls,
                   batches, closeCalls>>
    /\ UNCHANGED dataVars

\* `async with self.trading_lock:` held around _execute_close
ManualLock(a) ==
    /\ man[a] = "locking"
    /\ ~lockHeld
    /\ lockHeld' = TRUE
    /\ man' = [man EXCEPT ![a] = "closing"]
    /\ UNCHANGED <<schedPc, tick, stopPc, trig, stopFlag, wpc, is_running,
                   cycle_count, cyc, inFlight, gateValue, trigCalls, batches,
                   closeCalls>>
    /\ UNCHANGED dataVars

\* _execute_close returns or raises: lock and slot are released
ManualFinish(a) ==
    /\ man[a] = "closing"
    /\ lockHeld' = FALSE
    /\ gateValue' = gateValue + 1
    /\ man' = [man EXCEPT ![a] = "none"]
    /\ UNCHANGED <<schedPc, tick, stopPc, trig, stopFlag, wpc, is_running,
                   cycle_count, cyc, inFlight, trigCalls, batches, closeCalls>>
    /\ UNCHANGED dataVars

\* ------------------------------------------------------------------------
\* AgentScheduler
\* ------------------------------------------------------------------------

\* start: one worker task and one ticker task per agent
SchedulerStart ==
    /\ schedPc = "new"
    /\ schedPc' = "running"
    /\ wpc' = [a \in Agents |-> "waiting"]
    /\ is_running' = [a \in Agents |-> TRUE]
    /\ tick' = [a \in Agents |-> "start"]
    /\ UNCHANGED <<stopPc, trig, stopFlag, cycle_count, cyc, inFlight, man,
                   gateValue, lockHeld, trigCalls, batches, closeCalls>>
    /\ UNCHANGED dataVars

\* mutant: the ticker sleeps one interval before its first trigger
TickerFire_SleepFirst(a) ==
    /\ tick[a] \in {"start", "ready"}
    /\ trigCalls < MaxTriggerCalls
    /\ IF tick[a] = "start"
         THEN UNCHANGED <<trig, batches, trigCalls>>
         ELSE Trigger(a) /\ trigCalls' = trigCalls + 1
    /\ tick' = [tick EXCEPT ![a] = "sleeping"]
    /\ UNCHANGED <<schedPc, stopPc, stopFlag, wpc, is_running, cycle_count, cyc,
                   inFlight, man, gateValue, lockHeld, closeCalls>>
    /\ UNCHANGED dataVars

\* _run_ticker: worker.trigger(), then sleep(interval_seconds) is entered;
\* the ticker runs when its task starts and when a sleep has ended
TickerFire(a) ==
    /\ tick[a] \in {"start", "ready"}
    /\ trigCalls < MaxTriggerCalls
    /\ trigCalls' = trigCalls + 1
    /\ Trigger(a)
    /\ tick' = [tick EXCEPT ![a] = "sleeping"]
    /\ UNCHANGED <<schedPc, stopPc, stopFlag, wpc, is_running, cycle_count, cyc,
                   inFlight, man, gateValue, lockHeld, closeCalls>>
    /\ UNCHANGED dataVars

\* _run_ticker: asyncio.sleep(interval_seconds) ends, the ticker is ready
\* to run its next iteration
TickerWake(a) ==
    /\ tick[a] = "sleeping"
    /\ trigCalls < MaxTriggerCalls
    /\ tick' = [tick EXCEPT ![a] = "ready"]
    /\ UNCHANGED <<schedPc, stopPc, trig, stopFlag, wpc, is_running, cycle_count,
                   cyc, inFlight, man, gateValue, lockHeld, trigCalls, batches,
                   closeCalls>>
    /\ UNCHANGED dataVars

\* AgentScheduler.trigger: only a registered worker is triggered
SchedulerTrigger(a) ==
    /\ trigCalls < MaxTriggerCalls
    /\ IF schedPc \in {"running", "stop_tickers", "stop_workers"}
         THEN Trigger(a) /\ trigCalls' = trigCalls + 1
         ELSE UNCHANGED <<trig, batches, trigCalls>>
    /\ UNCHANGED <<schedPc, tick, stopPc, stopFlag, wpc, is_running, cycle_count,
                   cyc, inFlight, man, gateValue, lockHeld, closeCalls>>
    /\ UNCHANGED dataVars

\* stop: task.cancel() for every ticker, then the tickers are awaited
SchedulerStopBegin ==
    /\ schedPc = "running"
    /\ schedPc' = "stop_tickers"
    /\ tick' = [a \in Agents |-> "cancelling"]
    /\ UNCHANGED <<stopPc, trig, stopFlag, wpc, is_running, cycle_count, cyc,
                   inFlight, man, gateValue, lockHeld, trigCalls, batches,
                   closeCalls>>
    /\ UNCHANGED dataVars

\* the cancellation reaches the ticker task
TickerCancelled(a) ==
    /\ tick[a] = "cancelling"
    /\ tick' = [tick EXCEPT ![a] = "done"]
    /\ UNCHANGED <<schedPc, stopPc, trig, stopFlag, wpc, is_running, cycle_count,
                   cyc, inFlight, man, gateValue, lockHeld, trigCalls, batches,
                   closeCalls>>
    /\ UNCHANGED dataVars

\* mutant: gather() without return_exceptions: the CancelledError of the
\* first ticker that ends leaves stop() before any worker is stopped
SchedulerStopWorkers_Abort ==
    /\ schedPc = "stop_tickers"
    /\ \E a \in Agents : tick[a] = "done"
    /\ schedPc' = "stopped"
    /\ UNCHANGED <<stopPc, tick, trig, stopFlag, wpc, is_running, cycle_count, cyc,
                   inFlight, man, gateValue, lockHeld, trigCalls, batches,
                   closeCalls>>
    /\ UNCHANGED dataVars

\* stop: every ticker ended (its CancelledError is collected by gather),
\* gather(worker.stop() ...) is entered
SchedulerStopWorkers ==
    /\ schedPc = "stop_tickers"
    /\ \A a \in Agents : tick[a] = "done"
    /\ schedPc' = "stop_workers"
    /\ stopPc' = [a \in Agents |-> "pending"]
    /\ UNCHANGED <<tick, trig, stopFlag, wpc, is_running, cycle_count, cyc,
                   inFlight, man, gateValue, lockHeld, trigCalls, batches,
                   closeCalls>>
    /\ UNCHANGED dataVars

\* mutant: stop() sets the stop flag but fires no trigger
WorkerStop_NoTrigger(a) ==
    /\ stopPc[a] = "pending"
    /\ stopFlag' = [stopFlag EXCEPT ![a] = TRUE]
    /\ stopPc' = [stopPc EXCEPT ![a] = "awaiting"]
    /\ UNCHANGED <<schedPc, tick, wpc, is_running, cycle_count, cyc, inFlight,
                   man, gateValue, lockHeld, trigCalls, closeCalls, trig, batches>>
    /\ UNCHANGED dataVars

\* AgentWorker.stop up to `await self._task`
WorkerStop(a) ==
    /\ stopPc[a] = "pending"
    /\ stopFlag' = [stopFlag EXCEPT ![a] = TRUE]
    /\ Trigger(a)
    /\ stopPc' = [stopPc EXCEPT ![a] = "awaiting"]
    /\ UNCHANGED <<schedPc, tick, wpc, is_running, cycle_count, cyc, inFlight,
                   man, gateValue, lockHeld, trigCalls, closeCalls>>
    /\ UNCHANGED dataVars

\* AgentWorker.stop: the awaited _run task has finished
WorkerStopReturn(a) ==
    /\ stopPc[a] = "awaiting"
    /\ wpc[a] = "done"
    /\ is_running' = [is_running EXCEPT ![a] = FALSE]
    /\ stopPc' = [stopPc EXCEPT ![a] = "returned"]
    /\ UNCHANGED <<schedPc, tick, trig, stopFlag, wpc, cycle_count, cyc, inFlight,
                   man, gateValue, lockHeld, trigCalls, batches, closeCalls>>
    /\ UNCHANGED dataVars

\* stop: every worker.stop() returned; workers and tickers are cleared
SchedulerStopEnd ==
    /\ schedPc = "stop_workers"
    /\ \A a \in Agents : stopPc[a] = "returned"
    /\ schedPc' = "stopped"
    /\ UNCHANGED <<tick, stopPc, trig, stopFlag, wpc, is_running, cycle_count, cyc,
                   inFlight, man, gateValue, lockHeld, trigCalls, batches,
                   closeCalls>>
    /\ UNCHANGED dataVars

\* ------------------------------------------------------------------------
\* Specification of the scheduler, the workers and the gate
\* ------------------------------------------------------------------------

ConcInit ==
    /\ schedPc = "new"
    /\ tick = [a \in Agents |-> "none"]
    /\ stopPc = [a \in Agents |-> "none"]
    /\ trig = [a \in Agents |-> FALSE]
    /\ stopFlag = [a \in Agents |-> FALSE]
    /\ wpc = [a \in Agents |-> "none"]
    /\ is_running = [a \in Agents |-> FALSE]
    /\ cycle_count = [a \in Agents |-> 0]
    /\ cyc = [a \in Agents |-> "none"]
    /\ inFlight = [a \in Agents |-> 0]
    /\ man = [a \in Agents |-> "none"]
    /\ gateValue = GateCapacity
    /\ lockHeld = FALSE
    /\ trigCalls = 0
    /\ batches = [a \in Agents |-> 0]
    /\ closeCalls = 0

\* ------------------------------------------------------------------------
\* TradingAgent._execute_open_long / _execute_open_short: sizing
\* ------------------------------------------------------------------------

\* the minimum order quantity, 0.001
MinQuantity == <<1, 1000>>

\* the rounding safety factor, 0.95
FormattingSafetyFactor == <<19, 20>>

\* the smallest remaining total margin worth trading, 0.1 USD
MinRemainingMargin == <<1, 10>>

\* sum over positions of |position_amt| * entry_price / leverage
RECURSIVE TotalMarginUsed(_)
TotalMarginUsed(positions) ==
    IF positions = <<>> THEN R(0)
    ELSE LET p == Head(positions)
         IN  RAdd(RDiv(RMul(RAbs(p.position_amt), p.entry_price), R(p.leverage)),
                  TotalMarginUsed(Tail(positions)))

\* mutant: the single-trade limit takes no account of the open positions
MaxTradePct_IgnoresPositions(positions, risk) == risk.max_single_trade_pct

\* mutant: the conservative cap is used whether or not positions exist
MaxTradePct_Conservative(positions, risk) ==
    risk.max_single_trade_with_positions_pct

\* the single-trade cap in percent: the conservative one when positions exist
MaxTradePct(positions, risk) ==
    IF positions # <<>> THEN risk.max_single_trade_with_positions_pct
    ELSE risk.max_single_trade_pct

\* what a sizing run reports: the outcome, the quantity handed to the exchange
\* and the margin approved for it, with the limits it was checked against and
\* the value of position_size_usd after the single-trade step and after the
\* total-position step
SizingResult(status, quantity, margin, maxTrade, used, maxTotal, afterSingle, afterTotal) ==
    [status |-> status, quantity |-> quantity, position_size_usd |-> margin,
     max_trade_amount |-> maxTrade, total_margin_used |-> used,
     max_total_margin |-> maxTotal,
     after_single_limit |-> afterSingle, after_total_limit |-> afterTotal]

\* mutant: the floor quantity is not checked against the single-trade limit
OpenLongSizing_NoFloorCap(decision, account, positions, price, risk) ==
    LET leverage == decision.leverage
        available == account.available_balance
        max_trade_amount == RDiv(RMul(available, R(MaxTradePct(positions, risk))), R(100))
        size1 == IF RLt(max_trade_amount, decision.position_size_usd)
                   THEN max_trade_amount ELSE decision.position_size_usd
        total_margin_used == TotalMarginUsed(positions)
        max_total_margin ==
            RDiv(RMul(account.total_wallet_balance, R(risk.max_total_position_pct)), R(100))
        overTotal == RLt(max_total_margin, RAdd(total_margin_used, size1))
        remaining == RSub(max_total_margin, total_margin_used)
        size2 == IF overTotal THEN remaining ELSE size1
        quantity0 == RDiv(RMul(size2, R(leverage)), price)
        floored == RLt(quantity0, MinQuantity)
        quantity == IF floored THEN MinQuantity ELSE quantity0
        min_margin_needed == RDiv(RMul(MinQuantity, price), R(leverage))
        size3 == IF floored THEN min_margin_needed ELSE size2
        estimated_formatted_qty == Round3(RMul(quantity, FormattingSafetyFactor))
        required_margin == RDiv(RMul(estimated_formatted_qty, price), R(leverage))
        Res(status, q, m) ==
            SizingResult(status, q, m, max_trade_amount, total_margin_used, max_total_margin,
                         size1, size2)
    IN  IF overTotal /\ RLt(remaining, MinRemainingMargin)
          THEN Res("abort_total", R(0), size1)
        ELSE IF floored /\ RLt(available, min_margin_needed)
          THEN Res("abort_min_balance", R(0), size2)
        ELSE IF RLt(available, required_margin)
          THEN Res("abort_final", R(0), size3)
        ELSE Res("order", quantity, size3)

\* mutant: a remaining total margin of exactly 0.1 ends the decision as well
OpenLongSizing_AbortAtThreshold(decision, account, positions, price, risk) ==
    LET leverage == decision.leverage
        available == account.available_balance
        \* check single trade limit
        max_trade_amount == RDiv(RMul(available, R(MaxTradePct(positions, risk))), R(100))
        size1 == IF RLt(max_trade_amount, decision.position_size_usd)
                   THEN max_trade_amount ELSE decision.position_size_usd
        \* check total position limit
        total_margin_used == TotalMarginUsed(positions)
        max_total_margin ==
            RDiv(RMul(account.total_wallet_balance, R(risk.max_total_position_pct)), R(100))
        overTotal == RLt(max_total_margin, RAdd(total_margin_used, size1))
        remaining == RSub(max_total_margin, total_margin_used)
        size2 == IF overTotal THEN remaining ELSE size1
        \* calculate quantity
        quantity0 == RDiv(RMul(size2, R(leverage)), price)
        \* validate minimum quantity
        floored == RLt(quantity0, MinQuantity)
        quantity == IF floored THEN MinQuantity ELSE quantity0
        min_margin_needed == RDiv(RMul(MinQuantity, price), R(leverage))
        size3 == IF floored THEN min_margin_needed ELSE size2
        \* safety buffer for the exchange's rounding
        estimated_formatted_qty == Round3(RMul(quantity, FormattingSafetyFactor))
        required_margin == RDiv(RMul(estimated_formatted_qty, price), R(leverage))
        Res(status, q, m) ==
            SizingResult(status, q, m, max_trade_amount, total_margin_used, max_total_margin,
                         size1, size2)
    IN  IF overTotal /\ RLe(remaining, MinRemainingMargin)
          THEN Res("abort_total", R(0), size1)
        ELSE IF floored /\ RLt(available, min_margin_needed)
          THEN Res("abort_min_balance", R(0), size2)
        ELSE IF floored /\ RLt(max_trade_amount, min_margin_needed)
          THEN Res("abort_min_limit", R(0), size2)
        ELSE IF RLt(available, required_margin)
          THEN Res("abort_final", R(0), size3)
        ELSE Res("order", quantity, size3)

\* _execute_open_long up to the order: steps 1-5 of the sizing
OpenLongSizing(decision, account, positions, price, risk) ==
    LET leverage == decision.leverage
        available == account.available_balance
        \* check single trade limit
        max_trade_amount == RDiv(RMul(available, R(MaxTradePct(positions, risk))), R(100))
        size1 == IF RLt(max_trade_amount, decision.position_size_usd)
                   THEN max_trade_amount ELSE decision.position_size_usd
        \* check total position limit
        total_margin_used == TotalMarginUsed(positions)
        max_total_margin ==
            RDiv(RMul(account.total_wallet_balance, R(risk.max_total_position_pct)), R(100))
        overTotal == RLt(max_total_margin, RAdd(total_margin_used, size1))
        remaining == RSub(max_total_margin, total_margin_used)
        size2 == IF overTotal THEN remaining ELSE size1
        \* calculate quantity
        quantity0 == RDiv(RMul(size2, R(leverage)), price)
        \* validate minimum quantity
        floored == RLt(quantity0, MinQuantity)
        quantity == IF floored THEN MinQuantity ELSE quantity0
        min_margin_needed == RDiv(RMul(MinQuantity, price), R(leverage))
        size3 == IF floored THEN min_margin_needed ELSE size2
        \* safety buffer for the exchange's rounding
        estimated_formatted_qty == Round3(RMul(quantity, FormattingSafetyFactor))
        required_margin == RDiv(RMul(estimated_formatted_qty, price), R(leverage))
        Res(status, q, m) ==
            SizingResult(status, q, m, max_trade_amount, total_margin_used, max_total_margin,
                         size1, size2)
    IN  IF overTotal /\ RLt(remaining, MinRemainingMargin)
          THEN Res("abort_total", R(0), size1)
        ELSE IF floored /\ RLt(available, min_margin_needed)
          THEN Res("abort_min_balance", R(0), size2)
        ELSE IF floored /\ RLt(max_trade_amount, min_margin_needed)
          THEN Res("abort_min_limit", R(0), size2)
        ELSE IF RLt(available, required_margin)
          THEN Res("abort_final", R(0), size3)
        ELSE Res("order", quantity, size3)

\* mutant: after the raise to the minimum quantity the planned margin is kept
OpenShortSizing_PlannedMargin(decision, account, positions, price, risk) ==
    LET leverage == decision.leverage
        available == account.available_balance
        max_trade_pct == IF positions # <<>>
                           THEN risk.max_single_trade_with_positions_pct
                           ELSE risk.max_single_trade_pct
        max_trade_amount == RDiv(RMul(available, R(max_trade_pct)), R(100))
        size1 == IF RLt(max_trade_amount, decision.position_size_usd)
                   THEN max_trade_amount ELSE decision.position_size_usd
        total_margin_used == TotalMarginUsed(positions)
        max_total_margin ==
            RDiv(RMul(account.total_wallet_balance, R(risk.max_total_position_pct)), R(100))
        overTotal == RLt(max_total_margin, RAdd(total_margin_used, size1))
        remaining == RSub(max_total_margin, total_margin_used)
        size2 == IF overTotal THEN remaining ELSE size1
        quantity0 == RDiv(RMul(size2, R(leverage)), price)
        floored == RLt(quantity0, MinQuantity)
        quantity == IF floored THEN MinQuantity ELSE quantity0
        min_margin_needed == RDiv(RMul(MinQuantity, price), R(leverage))
        size3 == size2
        estimated_formatted_qty == Round3(RMul(quantity, FormattingSafetyFactor))
        required_margin == RDiv(RMul(estimated_formatted_qty, price), R(leverage))
        Res(status, q, m) ==
            SizingResult(status, q, m, max_trade_amount, total_margin_used, max_total_margin,
                         size1, size2)
    IN  IF overTotal /\ RLt(remaining, MinRemainingMargin)
          THEN Res("abort_total", R(0), size1)
        ELSE IF floored /\ RLt(available, min_margin_needed)
          THEN Res("abort_min_balance", R(0), size2)
        ELSE IF floored /\ RLt(max_trade_amount, min_margin_needed)
          THEN Res("abort_min_limit", R(0), size2)
        ELSE IF RLt(available, required_margin)
          THEN Res("abort_final", R(0), size3)
        ELSE Res("order", quantity, size3)

\* _execute_open_short up to the order: the same steps, written out again
OpenShortSizing(decision, account, positions, price, risk) ==
    LET leverage == decision.leverage
        available == account.available_balance
        max_trade_pct == IF positions # <<>>
                           THEN risk.max_single_trade_with_positions_pct
                           ELSE risk.max_single_trade_pct
        max_trade_amount == RDiv(RMul(available, R(max_trade_pct)), R(100))
        size1 == IF RLt(max_trade_amount, decision.position_size_usd)
                   THEN max_trade_amount ELSE decision.position_size_usd
        total_margin_used == TotalMarginUsed(positions)
        max_total_margin ==
            RDiv(RMul(account.total_wallet_balance, R(risk.max_total_position_pct)), R(100))
        overTotal == RLt(max_total_margin, RAdd(total_margin_used, size1))
        remaining == RSub(max_total_margin, total_margin_used)
        size2 == IF overTotal THEN remaining ELSE size1
        quantity0 == RDiv(RMul(size2, R(leverage)), price)
        floored == RLt(quantity0, MinQuantity)
        quantity == IF floored THEN MinQuantity ELSE quantity0
        min_margin_needed == RDiv(RMul(MinQuantity, price), R(leverage))
        size3 == IF floored THEN min_margin_needed ELSE size2
        estimated_formatted_qty == Round3(RMul(quantity, FormattingSafetyFactor))
        required_margin == RDiv(RMul(estimated_formatted_qty, price), R(leverage))
        Res(status, q, m) ==
            SizingResult(status, q, m, max_trade_amount, total_margin_used, max_total_margin,
                         size1, size2)
    IN  IF overTotal /\ RLt(remaining, MinRemainingMargin)
          THEN Res("abort_total", R(0), size1)
        ELSE IF floored /\ RLt(available, min_margin_needed)
          THEN Res("abort_min_balance", R(0), size2)
        ELSE IF floored /\ RLt(max_trade_amount, min_margin_needed)
          THEN Res("abort_min_limit", R(0), size2)
        ELSE IF RLt(available, required_margin)
          THEN Res("abort_final", R(0), size3)
        ELSE Res("order", quantity, size3)

\* the inputs of the sizing runs that are checked
SizingActions == {"open_long", "open_short"}
SizingLeverages == {1, 10}
SizingRequests == {R(0), R(4), R(10), R(800)}
SizingAvailable == {R(3), R(20), R(100), R(1000)}
SizingWallets == {R(100), R(1000)}
SizingPrices == {R(2), R(50000)}
SizingPositions ==
    { <<>>,
      <<[position_amt |-> <<-3, 2>>, entry_price |-> R(53), leverage |-> 1]>>,
      <<[position_amt |-> <<799, 1000>>, entry_price |-> R(100), leverage |-> 1]>>,
      <<[position_amt |-> <<1, 1000>>, entry_price |-> R(50000), leverage |-> 10],
        [position_amt |-> R(5), entry_price |-> R(2), leverage |-> 1]>> }
SizingRisks ==
    { [max_single_trade_pct |-> 50, max_single_trade_with_positions_pct |-> 30,
       max_total_position_pct |-> 80],
      [max_single_trade_pct |-> 100, max_single_trade_with_positions_pct |-> 100,
       max_total_position_pct |-> 100],
      [max_single_trade_pct |-> 10, max_single_trade_with_positions_pct |-> 5,
       max_total_position_pct |-> 50] }

NoSizing == [status |-> "none"]

\* no sizing run is under way (the other specifications)
SizeIdle == szIn = NoSizing /\ szOut = NoSizing

SizeInit ==
    /\ szIn \in [action : SizingActions,
                 decision : [leverage : SizingLeverages, position_size_usd : SizingRequests],
                 account : [available_balance : SizingAvailable,
                            total_wallet_balance : SizingWallets],
                 positions : SizingPositions,
                 price : SizingPrices,
                 risk : SizingRisks]
    \* the exchange never reports more available than the wallet holds
    /\ RLe(szIn.account.available_balance, szIn.account.total_wallet_balance)
    /\ szOut = NoSizing

\* _execute_decisions dispatches an open_long decision
ExecuteOpenLong ==
    /\ szOut = NoSizing
    /\ szIn.action = "open_long"
    /\ szOut' = OpenLongSizing(szIn.decision, szIn.account, szIn.positions,
                               szIn.price, szIn.risk)
    /\ UNCHANGED szIn
    /\ UNCHANGED <<concVars, acctVars, semVars, decVars, openVars, lkVars>>

\* _execute_decisions dispatches an open_short decision
ExecuteOpenShort ==
    /\ szOut = NoSizing
    /\ szIn.action = "open_short"
    /\ szOut' = OpenShortSizing(szIn.decision, szIn.account, szIn.positions,
                                szIn.price, szIn.risk)
    /\ UNCHANGED szIn
    /\ UNCHANGED <<concVars, acctVars, semVars, decVars, openVars, lkVars>>

\* ------------------------------------------------------------------------
\* One agent's accounting: the DecisionLogger, its storage and the exchange
\* position, for one symbol.  Restarting the process builds a new
\* DecisionLogger and TradingAgent over the same storage.
\* ------------------------------------------------------------------------

\* Python's None
None == <<>>

Sides == {"long", "short"}

\* an amount below which a detected cash flow is taken to be 0
CASH_FLOW_EPSILON == <<1, 1000000>>

\* the remaining quantity at or below which a ledger entry is removed
RemainingEpsilon == <<1, 1000000000>>

\* how many trades log_decision reads back
TradeReadLimit == 100

Reverse(s) == [i \in 1..Len(s) |-> s[Len(s) + 1 - i]]

\* s[-n:]
TakeLast(s, n) == IF n >= Len(s) THEN s ELSE SubSeq(s, Len(s) - n + 1, Len(s))

\* s[:n]
TakeFirst(s, n) == IF n >= Len(s) THEN s ELSE SubSeq(s, 1, n)

\* s[n:]
DropFirst(s, n) == IF n >= Len(s) THEN <<>> ELSE SubSeq(s, n + 1, Len(s))

\* TradeStorage.get_trades_sync(limit): a limit of 0 (or None) is no limit.
\* The file keeps the trades in the order written and returns the last
\* `limit`; the database returns them newest first and stops after `limit`.
GetTradesSync(st, limit) ==
    IF st.type = "file"
      THEN IF limit # 0 THEN TakeLast(st.trades, limit) ELSE st.trades
      ELSE IF limit # 0 THEN TakeFirst(Reverse(st.trades), limit)
                        ELSE Reverse(st.trades)

\* EquityHistoryStorage.get_equity_history_sync(limit): the file is returned
\* whole; the database returns the entries oldest first and stops after
\* `limit`.
GetEquityHistorySync(st, limit) ==
    IF st.type = "file"
      THEN st.equity
      ELSE IF limit # 0 THEN TakeFirst(st.equity, limit) ELSE st.equity

RECURSIVE MaxCycleNumber(_)
MaxCycleNumber(logs) ==
    IF logs = <<>> THEN 0
    ELSE LET m == MaxCycleNumber(Tail(logs))
         IN  IF Head(logs).cycle > m THEN Head(logs).cycle ELSE m

\* mutant: the number of decision logs is taken for the last cycle number
GetLastCycleNumberSync_Count(st) == Len(st.decisions)

\* DecisionLogStorage.get_last_cycle_number_sync
GetLastCycleNumberSync(st) == MaxCycleNumber(st.decisions)

\* sum(t["pnl_usdt"] for t in trades)
RECURSIVE SumPnl(_)
SumPnl(trades) ==
    IF trades = <<>> THEN R(0)
    ELSE RAdd(Head(trades).pnl_usdt, SumPnl(Tail(trades)))

\* DecisionLogger.__init__ before the history is loaded
NewLogger ==
    [open_positions |-> [s \in Sides |-> None],
     net_deposits |-> R(0),
     last_equity |-> None,
     last_unrealized |-> None,
     last_logged_trade_index |-> 0]

\* DecisionLogger._initialize_runtime_state
InitializeRuntimeState(st) ==
    LET equity_history == GetEquityHistorySync(st, 1)
        last_entry == equity_history[Len(equity_history)]
        trades == GetTradesSync(st, 0)
        loaded == IF equity_history # <<>>
                    THEN [NewLogger EXCEPT !.net_deposits = last_entry.net_deposits,
                                           !.last_equity = last_entry.gross_equity,
                                           !.last_unrealized = last_entry.unrealized_pnl]
                    ELSE NewLogger
    IN  [loaded EXCEPT !.last_logged_trade_index = Len(trades)]

\* mutant: the detected cash flow leaves out the change of unrealized P&L
LogDecision_NoUnrealized(lm, cycle, account, st) ==
    LET current_equity == account.total_wallet_balance
        current_unrealized == account.total_unrealized_profit
        recent_trades == GetTradesSync(st, TradeReadLimit)
        new_trades == DropFirst(recent_trades, lm.last_logged_trade_index)
        realized_change == SumPnl(new_trades)
        first == lm.last_equity = None
        equity_delta == IF first THEN R(0) ELSE RSub(current_equity, lm.last_equity)
        unrealized_delta ==
            IF first THEN R(0)
            ELSE RSub(current_unrealized,
                      IF lm.last_unrealized = None THEN R(0) ELSE lm.last_unrealized)
        raw_cash_flow == IF first THEN R(0) ELSE RSub(equity_delta, realized_change)
        external_cash_flow ==
            IF RLt(RAbs(raw_cash_flow), CASH_FLOW_EPSILON) THEN R(0) ELSE raw_cash_flow
        net_deposits == RAdd(lm.net_deposits, external_cash_flow)
        adjusted_equity == RSub(current_equity, net_deposits)
    IN  [logger |-> [lm EXCEPT !.net_deposits = net_deposits,
                               !.last_equity = current_equity,
                               !.last_unrealized = current_unrealized,
                               !.last_logged_trade_index = Len(recent_trades)],
         point |-> [cycle |-> cycle, equity |-> adjusted_equity,
                    gross_equity |-> current_equity,
                    unrealized_pnl |-> current_unrealized,
                    net_deposits |-> net_deposits,
                    external_cash_flow |-> external_cash_flow],
         first |-> first,
         last_equity |-> lm.last_equity,
         last_unrealized |-> lm.last_unrealized,
         realized_change |-> realized_change,
         raw_cash_flow |-> raw_cash_flow]

\* mutant: the adjusted equity is computed before the cash flow is added to
\* the net deposits
LogDecision_AdjustBeforeFlow(lm, cycle, account, st) ==
    LET current_equity == account.total_wallet_balance
        current_unrealized == account.total_unrealized_profit
        recent_trades == GetTradesSync(st, TradeReadLimit)
        new_trades == DropFirst(recent_trades, lm.last_logged_trade_index)
        realized_change == SumPnl(new_trades)
        first == lm.last_equity = None
        equity_delta == IF first THEN R(0) ELSE RSub(current_equity, lm.last_equity)
        unrealized_delta ==
            IF first THEN R(0)
            ELSE RSub(current_unrealized,
                      IF lm.last_unrealized = None THEN R(0) ELSE lm.last_unrealized)
        raw_cash_flow ==
            IF first THEN R(0)
            ELSE RSub(RSub(equity_delta, realized_change), unrealized_delta)
        external_cash_flow ==
            IF RLt(RAbs(raw_cash_flow), CASH_FLOW_EPSILON) THEN R(0) ELSE raw_cash_flow
        net_deposits == RAdd(lm.net_deposits, external_cash_flow)
        adjusted_equity == RSub(current_equity, lm.net_deposits)
    IN  [logger |-> [lm EXCEPT !.net_deposits = net_deposits,
                               !.last_equity = current_equity,
                               !.last_unrealized = current_unrealized,
                               !.last_logged_trade_index = Len(recent_trades)],
         point |-> [cycle |-> cycle, equity |-> adjusted_equity,
                    gross_equity |-> current_equity,
                    unrealized_pnl |-> current_unrealized,
                    net_deposits |-> net_deposits,
                    external_cash_flow |-> external_cash_flow],
         first |-> first,
         last_equity |-> lm.last_equity,
         last_unrealized |-> lm.last_unrealized,
         realized_change |-> realized_change,
         raw_cash_flow |-> raw_cash_flow]

\* DecisionLogger.log_decision: the new logger state, the EquityPoint that is
\* written, and what the reconciliation was computed from
LogDecision(lm, cycle, account, st) ==
    LET current_equity == account.total_wallet_balance
        current_unrealized == account.total_unrealized_profit
        recent_trades == GetTradesSync(st, TradeReadLimit)
        new_trades == DropFirst(recent_trades, lm.last_logged_trade_index)
        realized_change == SumPnl(new_trades)
        first == lm.last_equity = None
        equity_delta == IF first THEN R(0) ELSE RSub(current_equity, lm.last_equity)
        unrealized_delta ==
            IF first THEN R(0)
            ELSE RSub(current_unrealized,
                      IF lm.last_unrealized = None THEN R(0) ELSE lm.last_unrealized)
        raw_cash_flow ==
            IF first THEN R(0)
            ELSE RSub(RSub(equity_delta, realized_change), unrealized_delta)
        external_cash_flow ==
            IF RLt(RAbs(raw_cash_flow), CASH_FLOW_EPSILON) THEN R(0) ELSE raw_cash_flow
        net_deposits == RAdd(lm.net_deposits, external_cash_flow)
        adjusted_equity == RSub(current_equity, net_deposits)
    IN  [logger |-> [lm EXCEPT !.net_deposits = net_deposits,
                               !.last_equity = current_equity,
                               !.last_unrealized = current_unrealized,
                               !.last_logged_trade_index = Len(recent_trades)],
         point |-> [cycle |-> cycle, equity |-> adjusted_equity,
                    gross_equity |-> current_equity,
                    unrealized_pnl |-> current_unrealized,
                    net_deposits |-> net_deposits,
                    external_cash_flow |-> external_cash_flow],
         first |-> first,
         last_equity |-> lm.last_equity,
         last_unrealized |-> lm.last_unrealized,
         realized_change |-> realized_change,
         raw_cash_flow |-> raw_cash_flow]

\* the positions, in the order written, of the trades that log_decision
\* takes as new: recent_trades[self._last_logged_trade_index:]
NewTradeIndices(lm, st) ==
    LET numbered == [st EXCEPT !.trades = [k \in 1..Len(st.trades) |-> k]]
    IN  DropFirst(GetTradesSync(numbered, TradeReadLimit), lm.last_logged_trade_index)

\* one more reconciliation for each trade at the positions idx
CountTrades(counted, idx) ==
    [k \in 1..Len(counted) |->
        counted[k] + Cardinality({j \in 1..Len(idx) : idx[j] = k})]

\* DecisionLogger.record_open_position
RecordOpenPosition(lm, side, entry_price, quantity, leverage) ==
    [lm EXCEPT !.open_positions[side] =
        [entry_price |-> entry_price, quantity |-> quantity, leverage |-> leverage]]

\* mutant: the profit of a short is computed as that of a long
RecordClosePosition_NoFlip(lm, side, close_price, quantity) ==
    LET open_pos == lm.open_positions[side]
        entry_price == open_pos.entry_price
        open_quantity == open_pos.quantity
        leverage == open_pos.leverage
        close_quantity ==
            IF quantity = None THEN open_quantity
            ELSE RMin(open_quantity, RMax(R(0), quantity))
        pnl_pct == RMul(RDiv(RSub(close_price, entry_price), entry_price), R(100))
        pnl_usdt == RMul(RMul(RSub(close_price, entry_price), close_quantity), R(leverage))
        remaining_quantity == RSub(open_quantity, close_quantity)
    IN  IF open_pos = None THEN [trade |-> None, logger |-> lm]
        ELSE IF RLe(close_quantity, R(0)) THEN [trade |-> None, logger |-> lm]
        ELSE [trade |-> [side |-> side, entry_price |-> entry_price,
                         close_price |-> close_price, quantity |-> close_quantity,
                         leverage |-> leverage, pnl_pct |-> pnl_pct,
                         pnl_usdt |-> pnl_usdt],
              logger |-> IF RLe(remaining_quantity, RemainingEpsilon)
                           THEN [lm EXCEPT !.open_positions[side] = None]
                           ELSE [lm EXCEPT !.open_positions[side].quantity =
                                               remaining_quantity]]

\* DecisionLogger.record_close_position: the trade that is recorded (None if
\* there is none) and the new logger state
RecordClosePosition(lm, side, close_price, quantity) ==
    LET open_pos == lm.open_positions[side]
        entry_price == open_pos.entry_price
        open_quantity == open_pos.quantity
        leverage == open_pos.leverage
        close_quantity ==
            IF quantity = None THEN open_quantity
            ELSE RMin(open_quantity, RMax(R(0), quantity))
        pnl_pct ==
            IF side = "long"
              THEN RMul(RDiv(RSub(close_price, entry_price), entry_price), R(100))
              ELSE RMul(RDiv(RSub(entry_price, close_price), entry_price), R(100))
        pnl_usdt ==
            IF side = "long"
              THEN RMul(RMul(RSub(close_price, entry_price), close_quantity), R(leverage))
              ELSE RMul(RMul(RSub(entry_price, close_price), close_quantity), R(leverage))
        remaining_quantity == RSub(open_quantity, close_quantity)
    IN  IF open_pos = None THEN [trade |-> None, logger |-> lm]
        ELSE IF RLe(close_quantity, R(0)) THEN [trade |-> None, logger |-> lm]
        ELSE [trade |-> [side |-> side, entry_price |-> entry_price,
                         close_price |-> close_price, quantity |-> close_quantity,
                         leverage |-> leverage, pnl_pct |-> pnl_pct,
                         pnl_usdt |-> pnl_usdt],
              logger |-> IF RLe(remaining_quantity, RemainingEpsilon)
                           THEN [lm EXCEPT !.open_positions[side] = None]
                           ELSE [lm EXCEPT !.open_positions[side].quantity =
                                               remaining_quantity]]

\* a write handed to asyncio.create_task: it reaches the storage when the
\* running coroutine next suspends
PendingWrites(pend, kind) ==
    LET OfKind(w) == w.kind = kind
        ws == SelectSeq(pend, OfKind)
    IN  [i \in 1..Len(ws) |-> ws[i].rec]

\* the storage after the pending writes have run, in the order created
Flush(st, pend) ==
    [st EXCEPT !.trades = @ \o PendingWrites(pend, "trade"),
               !.equity = @ \o PendingWrites(pend, "equity"),
               !.decisions = @ \o PendingWrites(pend, "decision")]

\* the inputs of the accounting runs that are checked
StorageTypes == {"file", "database"}
AcctAccounts ==
    { [total_wallet_balance |-> R(100), total_unrealized_profit |-> R(0)],
      [total_wallet_balance |-> <<200000001, 2000000>>, total_unrealized_profit |-> R(0)],
      [total_wallet_balance |-> R(103), total_unrealized_profit |-> R(1)] }
AcctQuantities == {<<1, 500>>}
AcctOpenPrices == {R(100)}
AcctClosePrices == {R(110)}
AcctLeverages == {5}
\* the keys of a close decision: close_quantity and close_quantity_pct, None
\* for a key that is absent (close_position_manual leaves out what it was
\* not given)
AcctCloseDecisions ==
    { [close_quantity |-> None, close_quantity_pct |-> None],
      [close_quantity |-> <<1, 1000>>, close_quantity_pct |-> None],
      [close_quantity |-> R(0), close_quantity_pct |-> None],
      [close_quantity |-> None, close_quantity_pct |-> R(50)],
      [close_quantity |-> None, close_quantity_pct |-> <<1, 2>>],
      [close_quantity |-> None, close_quantity_pct |-> R(0)] }

\* entryPrice of the exchange's live position: the price its market orders
\* were filled at, which is not the price the agent read before ordering
AcctFillPrice == R(101)

\* x <= 1e-12: every positive number with a denominator below 2^31 is above
\* 1e-12
LeTiny(x) == x[1] <= 0

\* _execute_close: the close quantity asked of the exchange, None for all of
\* the position
CloseQuantity(decision, position_amt) ==
    LET pct == decision.close_quantity_pct
        pct1 == IF RLt(R(1), pct) THEN RDiv(pct, R(100)) ELSE pct
        asked ==
            IF decision.close_quantity # None THEN decision.close_quantity
            ELSE IF decision.close_quantity_pct # None
              THEN IF RLe(pct, R(0)) THEN None
                   ELSE RMul(position_amt, RMin(pct1, R(1)))
            ELSE None
    IN  IF asked = None THEN None
        ELSE RMin(position_amt, RMax(R(0), RAbs(asked)))

\* BinanceToolkit.get_positions: what the exchange reports of a net position
DexPosition(dex) ==
    [position_amt |-> RAbs(dex), entry_price |-> AcctFillPrice]

\* BinanceToolkit.get_positions in one-way mode: the side of a net position
PositionSide(dex) == IF dex[1] > 0 THEN "long" ELSE IF dex[1] < 0 THEN "short" ELSE "none"

DexSide == PositionSide(dexPos)

\* _execute_close on ledger lm and exchange position dex: whether
\* dex.close_position was called and with which quantity (None: all of the
\* position), what the exchange closed, the trade that was recorded (None if
\* none) and the ledger and the exchange position afterwards
ExecuteClose(lm, dex, side, decision, price) ==
    LET position_amt == DexPosition(dex).position_amt
        close_quantity == CloseQuantity(decision, position_amt)
        target_qty == IF close_quantity = None THEN position_amt
                      ELSE RMin(RAbs(close_quantity), position_amt)
        rc == RecordClosePosition(lm, side, price, target_qty)
    IN  IF PositionSide(dex) # side
          THEN [found |-> FALSE, position_amt |-> None, called |-> FALSE,
                quantity |-> None, closed_quantity |-> None, dexPos |-> dex,
                trade |-> None, logger |-> lm]
        ELSE IF close_quantity # None /\ LeTiny(close_quantity)
          THEN [found |-> TRUE, position_amt |-> position_amt, called |-> FALSE,
                quantity |-> close_quantity, closed_quantity |-> None,
                dexPos |-> dex, trade |-> None, logger |-> lm]
        ELSE [found |-> TRUE, position_amt |-> position_amt, called |-> TRUE,
              quantity |-> close_quantity, closed_quantity |-> target_qty,
              dexPos |-> IF side = "long" THEN RSub(dex, target_qty)
                         ELSE RAdd(dex, target_qty),
              trade |-> rc.trade, logger |-> rc.logger]

AcctInit ==
    /\ storage \in [type : StorageTypes, trades : {<<>>}, equity : {<<>>},
                    decisions : {<<>>}]
    /\ logger_module = InitializeRuntimeState(storage)
    /\ acRun = [pc |-> "idle", cycle_count |-> GetLastCycleNumberSync(storage),
                account |-> None, last_account_snapshot |-> None,
                restarted |-> FALSE, orders |-> 0]
    /\ pending = <<>>
    /\ dexPos = R(0)
    /\ ghost = [logger |-> NewLogger, cycle_count |-> 0, point |-> None]
    /\ hist = [opened |-> [s \in Sides |-> R(0)], closed |-> [s \in Sides |-> R(0)],
               counted |-> <<>>,
               startup_deposits |-> InitializeRuntimeState(storage).net_deposits,
               startup_points |-> Len(storage.equity),
               startup_cycle |-> acRun.cycle_count]
    /\ recon = None

\* no accounting run is under way (the other specifications)
AcctIdle ==
    /\ storage = None
    /\ logger_module = None
    /\ acRun = None
    /\ pending = <<>>
    /\ dexPos = None
    /\ ghost = None
    /\ hist = None
    /\ recon = None

\* trading_cycle up to the decisions: the slot is acquired (the pending
\* writes run while guard() is awaited), the cycle is numbered and the
\* account is fetched
AcctBeginCycle(account) ==
    /\ acRun.pc = "idle"
    /\ acRun.cycle_count < MaxCycles
    /\ GateCanAcquire
    /\ gateValue' = gateValue - 1
    /\ storage' = Flush(storage, pending)
    /\ pending' = <<>>
    /\ acRun' = [acRun EXCEPT !.pc = "cycle", !.cycle_count = @ + 1,
                              !.account = account]
    /\ ghost' = [ghost EXCEPT !.cycle_count = @ + 1]
    /\ UNCHANGED <<logger_module, dexPos, hist, recon>>
    /\ UNCHANGED <<concRest, sizeVars, semVars, decVars, openVars, lkVars>>

\* _execute_open_long / _execute_open_short with an order that succeeds:
\* quantity is what the sizing arrived at, price the market price
AcctOpen(side, quantity, price, leverage) ==
    /\ acRun.pc = "cycle"
    /\ acRun.orders < MaxOrders
    /\ storage' = Flush(storage, pending)
    /\ pending' = <<>>
    /\ dexPos' = IF side = "long" THEN RAdd(dexPos, quantity) ELSE RSub(dexPos, quantity)
    /\ logger_module' = RecordOpenPosition(logger_module, side, price, quantity, leverage)
    /\ hist' = [hist EXCEPT !.opened[side] = RAdd(@, quantity)]
    /\ acRun' = [acRun EXCEPT !.orders = @ + 1]
    /\ UNCHANGED <<ghost, recon>>
    /\ UNCHANGED <<concVars, sizeVars, semVars, decVars, openVars, lkVars>>

\* what _execute_close does to the exchange, the ledger and the storage: the
\* pending writes run while the exchange is awaited, the trade is handed to
\* create_task
CloseEffects(side, decision, price) ==
    LET r == ExecuteClose(logger_module, dexPos, side, decision, price)
    IN  /\ storage' = Flush(storage, pending)
        /\ pending' = IF r.trade = None THEN <<>>
                      ELSE <<[kind |-> "trade", rec |-> r.trade]>>
        /\ dexPos' = r.dexPos
        /\ logger_module' = r.logger
        /\ hist' = IF r.trade = None THEN hist
                   ELSE [hist EXCEPT !.closed[side] = RAdd(@, r.trade.quantity),
                                     !.counted = Append(@, 0)]

\* _execute_close for a close_long / close_short decision of the cycle
AcctClose(side, decision, price) ==
    /\ acRun.pc = "cycle"
    /\ acRun.orders < MaxOrders
    /\ CloseEffects(side, decision, price)
    /\ acRun' = [acRun EXCEPT !.orders =
                    IF ExecuteClose(logger_module, dexPos, side, decision, price).called
                      THEN @ + 1 ELSE @]
    /\ UNCHANGED <<ghost, recon>>
    /\ UNCHANGED <<concVars, sizeVars, semVars, decVars, openVars, lkVars>>

\* mutant: close_position_manual enters the close path without the guard
AcctManualBegin_NoGuard ==
    /\ acRun.pc = "idle"
    /\ closeCalls < MaxCloseCalls
    /\ closeCalls' = closeCalls + 1
    /\ storage' = Flush(storage, pending)
    /\ pending' = <<>>
    /\ acRun' = [acRun EXCEPT !.pc = "manual"]
    /\ UNCHANGED <<gateValue, logger_module, dexPos, ghost, hist, recon>>
    /\ UNCHANGED <<concRestCalls, sizeVars, semVars, decVars, openVars, lkVars>>

\* close_position_manual up to _execute_close: the decision is built and the
\* slot is acquired (the pending writes run while guard() is awaited)
AcctManualBegin ==
    /\ acRun.pc = "idle"
    /\ closeCalls < MaxCloseCalls
    /\ closeCalls' = closeCalls + 1
    /\ GateCanAcquire
    /\ gateValue' = gateValue - 1
    /\ storage' = Flush(storage, pending)
    /\ pending' = <<>>
    /\ acRun' = [acRun EXCEPT !.pc = "manual"]
    /\ UNCHANGED <<logger_module, dexPos, ghost, hist, recon>>
    /\ UNCHANGED <<concRestCalls, sizeVars, semVars, decVars, openVars, lkVars>>

\* close_position_manual: _execute_close with the decision built from
\* quantity and quantity_pct, then the slot is released
AcctManualClose(side, decision, price) ==
    /\ acRun.pc = "manual"
    /\ CloseEffects(side, decision, price)
    /\ gateValue' = gateValue + 1
    /\ acRun' = [acRun EXCEPT !.pc = "idle"]
    /\ UNCHANGED <<ghost, recon>>
    /\ UNCHANGED <<concRest, sizeVars, semVars, decVars, openVars, lkVars>>

\* the coroutine suspends and changes nothing (an awaited exchange call of a
\* decision that the sizing gives up, or the event loop between two
\* handlers): the pending writes run
AcctSuspend ==
    /\ acRun.pc \in {"cycle", "idle"}
    /\ pending # <<>>
    /\ storage' = Flush(storage, pending)
    /\ pending' = <<>>
    /\ UNCHANGED <<acRun, logger_module, dexPos, ghost, hist, recon>>
    /\ UNCHANGED <<concVars, sizeVars, semVars, decVars, openVars, lkVars>>

\* trading_cycle step 8: log_decision with the account fetched at the start
\* of the cycle; the decision log and the EquityPoint are written by tasks;
\* the cycle leaves guard() and the slot is released
AcctLogDecision ==
    LET r == LogDecision(logger_module, acRun.cycle_count, acRun.account, storage)
        g == LogDecision(ghost.logger, ghost.cycle_count, acRun.account, storage)
    IN  /\ acRun.pc = "cycle"
        /\ logger_module' = r.logger
        /\ recon' = [f \in DOMAIN r \ {"logger"} |-> r[f]]
        /\ pending' = pending \o <<[kind |-> "decision", rec |-> [cycle |-> acRun.cycle_count]],
                                   [kind |-> "equity", rec |-> r.point]>>
        /\ ghost' = [ghost EXCEPT !.logger = g.logger, !.point = g.point]
        /\ acRun' = [acRun EXCEPT !.pc = "logged",
                                  !.last_account_snapshot = acRun.account]
        /\ gateValue' = gateValue + 1
        /\ hist' = [hist EXCEPT !.counted =
                        CountTrades(@, NewTradeIndices(logger_module, storage))]
        /\ UNCHANGED <<storage, dexPos>>
        /\ UNCHANGED <<concRest, sizeVars, semVars, decVars, openVars, lkVars>>

\* trading_cycle when guard() times out: the cycle is numbered, the wait for
\* the slot ends in RuntimeError and AgentWorker._run logs it; the pending
\* writes ran during the wait
AcctSkipCycle ==
    /\ acRun.pc = "idle"
    /\ acRun.cycle_count < MaxCycles
    /\ GateCanTimeout
    /\ storage' = Flush(storage, pending)
    /\ pending' = <<>>
    /\ acRun' = [acRun EXCEPT !.cycle_count = @ + 1]
    /\ ghost' = [ghost EXCEPT !.cycle_count = @ + 1]
    /\ UNCHANGED <<logger_module, dexPos, hist, recon>>
    /\ UNCHANGED <<concVars, sizeVars, semVars, decVars, openVars, lkVars>>

\* mutant: the snapshot is kept as soon as it is fetched, so a cycle that
\* fails leaves it behind
AcctFailCycle_SnapshotKept ==
    /\ acRun.pc = "cycle"
    /\ storage' = Flush(storage, pending)
    /\ pending' = <<>>
    /\ gateValue' = gateValue + 1
    /\ acRun' = [acRun EXCEPT !.pc = "idle", !.last_account_snapshot = acRun.account]
    /\ UNCHANGED <<logger_module, dexPos, ghost, hist, recon>>
    /\ UNCHANGED <<concRest, sizeVars, semVars, decVars, openVars, lkVars>>

\* trading_cycle when an awaited call inside guard() raises before step 8
\* (the exchange, the market data, the decision model, a decision that is
\* not an object): the slot is released, log_decision is not reached and
\* AgentWorker._run logs the exception
AcctFailCycle ==
    /\ acRun.pc = "cycle"
    /\ storage' = Flush(storage, pending)
    /\ pending' = <<>>
    /\ gateValue' = gateValue + 1
    /\ acRun' = [acRun EXCEPT !.pc = "idle"]
    /\ UNCHANGED <<logger_module, dexPos, ghost, hist, recon>>
    /\ UNCHANGED <<concRest, sizeVars, semVars, decVars, openVars, lkVars>>

\* AgentWorker._run after the cycle: sleep(0) lets the pending writes run
AcctYield ==
    /\ acRun.pc = "logged"
    /\ storage' = Flush(storage, pending)
    /\ pending' = <<>>
    /\ acRun' = [acRun EXCEPT !.pc = "idle"]
    /\ UNCHANGED <<logger_module, dexPos, ghost, hist, recon>>
    /\ UNCHANGED <<concVars, sizeVars, semVars, decVars, openVars, lkVars>>

\* the process is stopped between two handlers and started again (once):
\* TradingAgent.__init__ builds a new DecisionLogger over the same storage
AcctRestart ==
    /\ acRun.pc = "idle"
    /\ acRun.cycle_count >= 1
    /\ ~acRun.restarted
    /\ pending = <<>>
    /\ logger_module' = InitializeRuntimeState(storage)
    /\ acRun' = [acRun EXCEPT !.cycle_count = GetLastCycleNumberSync(storage),
                              !.account = None, !.last_account_snapshot = None,
                              !.restarted = TRUE]
    /\ hist' = [opened |-> [s \in Sides |-> R(0)], closed |-> [s \in Sides |-> R(0)],
                counted |-> hist.counted,
                startup_deposits |-> InitializeRuntimeState(storage).net_deposits,
                startup_points |-> Len(storage.equity),
                startup_cycle |-> acRun'.cycle_count]
    /\ recon' = None
    /\ UNCHANGED <<storage, pending, dexPos, ghost>>
    /\ UNCHANGED <<concVars, sizeVars, semVars, decVars, openVars, lkVars>>

\* ------------------------------------------------------------------------
\* One open decision: _execute_open_long / _execute_open_short from the
\* sizing to the order, the ledger entry and the protective orders
\* ------------------------------------------------------------------------

\* the side an open action opens
OpenSide(action) == IF action = "open_long" THEN "long" ELSE "short"

\* a ledger entry left by an earlier open of the same symbol
EarlierEntry == [entry_price |-> R(90), quantity |-> R(1), leverage |-> 2]

\* the ledgers an open decision may find: empty, or an earlier entry on
\* either side
EarlierLedgers ==
    {NewLogger} \cup
    {RecordOpenPosition(NewLogger, side, EarlierEntry.entry_price,
                        EarlierEntry.quantity, EarlierEntry.leverage) : side \in Sides}

\* no open decision is under way (the other specifications)
OpenIdle == opRun = None

\* strategy.advanced_orders asks for protective orders or does not; `before`
\* keeps the ledger the decision found
OpenInit ==
    opRun \in {r \in [pc : {"sizing"},
               advanced_orders : BOOLEAN,
               logger : EarlierLedgers,
               before : EarlierLedgers,
               order_calls : {0},
               orders_filled : {0},
               protective_calls : {0},
               protective_placed : {0}] : r.before = r.logger}

\* mutant: the ledger entry is written before the order call
OpenOrder_RecordFirst(raises) ==
    /\ opRun # None
    /\ opRun.pc = "sizing"
    /\ szOut # NoSizing
    /\ szOut.status = "order"
    /\ opRun' = [opRun EXCEPT
                    !.order_calls = @ + 1,
                    !.orders_filled = IF raises THEN @ ELSE @ + 1,
                    !.logger = RecordOpenPosition(opRun.logger, OpenSide(szIn.action),
                                   szIn.price, szOut.quantity, szIn.decision.leverage),
                    !.pc = IF raises THEN "raised" ELSE "recorded"]
    /\ UNCHANGED <<concVars, sizeVars, acctVars, semVars, decVars, lkVars>>

\* `result = await self.dex.open_long(...)` for a decision the sizing
\* approved: the call raises, and the exception leaves _execute_open_long,
\* or it returns and record_open_position writes the ledger entry
OpenOrder(raises) ==
    /\ opRun # None
    /\ opRun.pc = "sizing"
    /\ szOut # NoSizing
    /\ szOut.status = "order"
    /\ opRun' = [opRun EXCEPT
                    !.order_calls = @ + 1,
                    !.orders_filled = IF raises THEN @ ELSE @ + 1,
                    !.logger = IF raises THEN @
                               ELSE RecordOpenPosition(@, OpenSide(szIn.action),
                                        szIn.price, szOut.quantity, szIn.decision.leverage),
                    !.pc = IF raises THEN "raised" ELSE "recorded"]
    /\ UNCHANGED <<concVars, sizeVars, acctVars, semVars, decVars, lkVars>>

\* _maybe_place_protective_orders: nothing is placed unless advanced_orders
\* asks for it; place_take_profit_stop_loss returns or raises, and what it
\* raises is logged
OpenProtect(raises) ==
    /\ opRun # None
    /\ opRun.pc = "recorded"
    /\ opRun' = IF ~opRun.advanced_orders
                  THEN [opRun EXCEPT !.pc = "done"]
                  ELSE [opRun EXCEPT
                           !.protective_calls = @ + 1,
                           !.protective_placed = IF raises THEN @ ELSE @ + 1,
                           !.pc = "done"]
    /\ UNCHANGED <<concVars, sizeVars, acctVars, semVars, decVars, lkVars>>

\* ------------------------------------------------------------------------
\* Steps 7-8 of trading_cycle: _parse_decisions, _execute_decisions and
\* log_decision.  The output of the decision model is a sequence of tokens:
\* brackets and commas, "obj" for a JSON object, "num" for any other JSON
\* scalar and "txt" for text that is not JSON.
\* ------------------------------------------------------------------------

JsonTokens == {"[", "]", ",", "obj", "num", "txt"}

\* str.find / str.rfind of one character: the position from 1, 0 if absent
Find(s, t) ==
    IF \E i \in 1..Len(s) : s[i] = t
      THEN CHOOSE i \in 1..Len(s) : s[i] = t /\ \A j \in 1..(i - 1) : s[j] # t
      ELSE 0

RFind(s, t) ==
    IF \E i \in 1..Len(s) : s[i] = t
      THEN CHOOSE i \in 1..Len(s) : s[i] = t /\ \A j \in (i + 1)..Len(s) : s[j] # t
      ELSE 0

JsonError == [ok |-> FALSE]

\* the JSON value that starts at position i: its Python type, the types of
\* its items if it is an array, and the position after it
RECURSIVE JsonValue(_, _)
RECURSIVE JsonItems(_, _)
JsonValue(s, i) ==
    IF i > Len(s) THEN JsonError
    ELSE IF s[i] = "obj" THEN [ok |-> TRUE, kind |-> "dict", items |-> <<>>, next |-> i + 1]
    ELSE IF s[i] = "num" THEN [ok |-> TRUE, kind |-> "scalar", items |-> <<>>, next |-> i + 1]
    ELSE IF s[i] = "["
      THEN IF i + 1 <= Len(s) /\ s[i + 1] = "]"
             THEN [ok |-> TRUE, kind |-> "list", items |-> <<>>, next |-> i + 2]
             ELSE LET r == JsonItems(s, i + 1)
                  IN  IF r.ok THEN [ok |-> TRUE, kind |-> "list", items |-> r.items,
                                    next |-> r.next]
                      ELSE JsonError
    ELSE JsonError

\* value ("," value)* "]" from position i
JsonItems(s, i) ==
    LET v == JsonValue(s, i)
    IN  IF ~v.ok THEN JsonError
        ELSE IF v.next > Len(s) THEN JsonError
        ELSE IF s[v.next] = "]"
          THEN [ok |-> TRUE, items |-> <<v.kind>>, next |-> v.next + 1]
        ELSE IF s[v.next] = ","
          THEN LET r == JsonItems(s, v.next + 1)
               IN  IF r.ok THEN [ok |-> TRUE, items |-> <<v.kind>> \o r.items,
                                 next |-> r.next]
                   ELSE JsonError
        ELSE JsonError

\* json.loads: the one value the whole string consists of, or an error
JsonLoads(s) ==
    LET v == JsonValue(s, 1)
    IN  IF v.ok /\ v.next = Len(s) + 1 THEN v ELSE JsonError

\* mutant: a json error is not caught
ParseDecisions_NoCatch(decisions_json) ==
    LET start == Find(decisions_json, "[")
        end == RFind(decisions_json, "]")
        json_str == SubSeq(decisions_json, start, end)
        r == JsonLoads(json_str)
    IN  IF start = 0 \/ end = 0 THEN [raised |-> FALSE, decisions |-> <<>>]
        ELSE IF r.ok THEN [raised |-> FALSE, decisions |-> r.items]
        ELSE [raised |-> TRUE, decisions |-> <<>>]

\* _parse_decisions: the text from the first "[" to the last "]" is loaded
\* as JSON; no array, or an error, gives the empty list
ParseDecisions(decisions_json) ==
    LET start == Find(decisions_json, "[")
        end == RFind(decisions_json, "]")
        json_str == SubSeq(decisions_json, start, end)
        r == JsonLoads(json_str)
    IN  IF start = 0 \/ end = 0 THEN [raised |-> FALSE, decisions |-> <<>>]
        ELSE IF r.ok THEN [raised |-> FALSE, decisions |-> r.items]
        ELSE [raised |-> FALSE, decisions |-> <<>>]

\* what executing one decision object comes to: an order that is placed and
\* recorded, a sizing abort, an exception of the exchange call, or an action
\* that is not an order (hold, wait, anything else)
DecisionOutcomes == {"order", "abort", "raise", "hold"}

\* the outputs of the decision model that are checked
LlmOutputs == UNION {[1..n -> JsonTokens] : n \in 0..MaxOutputLen}

DecStart ==
    [pc |-> "parse", decisions |-> <<>>, i |-> 1, executed |-> <<>>,
     failed |-> <<>>, orders |-> 0, recorded |-> 0, logged |-> FALSE]

\* no decision step is under way (the other specifications)
DecIdle == llmOut = <<>> /\ decRun = [DecStart EXCEPT !.pc = "none"]

DecInit == llmOut \in LlmOutputs /\ decRun = DecStart

\* trading_cycle step 7, first half: decisions = self._parse_decisions(...)
DecParse ==
    LET r == ParseDecisions(llmOut)
    IN  /\ decRun.pc = "parse"
        /\ decRun' = IF r.raised THEN [decRun EXCEPT !.pc = "raised"]
                     ELSE [decRun EXCEPT !.pc = "execute", !.decisions = r.decisions]
        /\ UNCHANGED llmOut
        /\ UNCHANGED <<concVars, sizeVars, acctVars, semVars, openVars, lkVars>>

\* _execute_decisions, one turn of its loop.  decision.get("action") is
\* evaluated before the try: on an item that is not an object it raises
\* AttributeError, which leaves _execute_decisions and trading_cycle.  Inside
\* the try a handler places its order and records it, returns without an
\* order, or raises and is caught.
DecExecute(outcome) ==
    /\ decRun.pc = "execute"
    /\ decRun.i <= Len(decRun.decisions)
    /\ IF decRun.decisions[decRun.i] # "dict"
         THEN /\ outcome = "raise"
              /\ decRun' = [decRun EXCEPT !.pc = "raised"]
         ELSE decRun' = [decRun EXCEPT
                  !.i = @ + 1,
                  !.executed = Append(@, decRun.i),
                  !.failed = IF outcome \in {"abort", "raise"} THEN Append(@, decRun.i) ELSE @,
                  !.orders = IF outcome = "order" THEN @ + 1 ELSE @,
                  !.recorded = IF outcome = "order" THEN @ + 1 ELSE @]
    /\ UNCHANGED llmOut
    /\ UNCHANGED <<concVars, sizeVars, acctVars, semVars, openVars, lkVars>>

\* trading_cycle step 8: log_decision writes the decision log and the
\* EquityPoint
DecLog ==
    /\ decRun.pc = "execute"
    /\ decRun.i > Len(decRun.decisions)
    /\ decRun' = [decRun EXCEPT !.pc = "done", !.logged = TRUE]
    /\ UNCHANGED llmOut
    /\ UNCHANGED <<concVars, sizeVars, acctVars, semVars, openVars, lkVars>>

DecisionNext ==
    \/ DecParse
    \/ \E outcome \in DecisionOutcomes : DecExecute(outcome)
    \/ DecLog

DecisionInit == ConcInit /\ SizeIdle /\ AcctIdle /\ SemInit /\ DecInit /\ OpenIdle /\ LkIdle

DecisionSpec == DecisionInit /\ [][DecisionNext]_vars

AcctNext ==
    \/ \E account \in AcctAccounts : AcctBeginCycle(account)
    \/ \E side \in Sides, quantity \in AcctQuantities, price \in AcctOpenPrices,
          leverage \in AcctLeverages : AcctOpen(side, quantity, price, leverage)
    \/ \E side \in Sides, decision \in AcctCloseDecisions, price \in AcctClosePrices :
          AcctClose(side, decision, price)
    \/ AcctSuspend
    \/ AcctLogDecision
    \/ AcctYield
    \/ AcctRestart

AcctSpecInit == ConcInit /\ SizeIdle /\ AcctInit /\ SemInit /\ DecIdle /\ OpenIdle /\ LkIdle

AcctSpec == AcctSpecInit /\ [][AcctNext]_vars

\* the account of the runs with manual closes: its equity does not move
CloseAccount == [total_wallet_balance |-> R(100), total_unrealized_profit |-> R(0)]

\* the agent's cycles together with the operator's close_position_manual
\* calls, which come between two cycles
CloseNext ==
    \/ AcctBeginCycle(CloseAccount)
    \/ \E side \in Sides, quantity \in AcctQuantities, price \in AcctOpenPrices,
          leverage \in AcctLeverages : AcctOpen(side, quantity, price, leverage)
    \/ \E side \in Sides, decision \in AcctCloseDecisions, price \in AcctClosePrices :
          AcctClose(side, decision, price)
    \/ AcctManualBegin
    \/ \E side \in Sides, decision \in AcctCloseDecisions, price \in AcctClosePrices :
          AcctManualClose(side, decision, price)
    \/ AcctSuspend
    \/ AcctLogDecision
    \/ AcctYield
    \/ AcctRestart

\* the runs with manual closes use the factory's default storage type
CloseInit == AcctSpecInit /\ storage.type = "database"

CloseSpec == CloseInit /\ [][CloseNext]_vars

\* the balance the account of the runs without deposits starts with
NoFlowWallet == R(100)

\* the unrealized P&L the exchange may report: 0 without a position
NoFlowUnrealized == IF dexPos = R(0) THEN {R(0)} ELSE {R(0), R(1)}

\* BinanceToolkit.get_account_balance on an account that nobody deposits to
\* or withdraws from: the balance is the starting balance plus the P&L of the
\* closes made so far, as the ledger computed it, plus the unrealized P&L
NoFlowAccount(unrealized) ==
    [total_wallet_balance |->
        RAdd(RAdd(NoFlowWallet,
                  SumPnl(storage.trades \o PendingWrites(pending, "trade"))),
             unrealized),
     total_unrealized_profit |-> unrealized]

\* the agent's cycles on an account without deposits and withdrawals, in one
\* process
NoFlowNext ==
    \/ \E unrealized \in NoFlowUnrealized : AcctBeginCycle(NoFlowAccount(unrealized))
    \/ \E side \in Sides, quantity \in AcctQuantities, price \in AcctOpenPrices,
          leverage \in AcctLeverages : AcctOpen(side, quantity, price, leverage)
    \/ \E side \in Sides, decision \in AcctCloseDecisions, price \in AcctClosePrices :
          AcctClose(side, decision, price)
    \/ AcctSuspend
    \/ AcctLogDecision
    \/ AcctYield

NoFlowSpec == AcctSpecInit /\ [][NoFlowNext]_vars

OpenNext ==
    \/ ExecuteOpenLong
    \/ ExecuteOpenShort
    \/ \E raises \in BOOLEAN : OpenOrder(raises)
    \/ \E raises \in BOOLEAN : OpenProtect(raises)

OpenSpecInit == ConcInit /\ SizeInit /\ AcctIdle /\ SemInit /\ DecIdle /\ OpenInit /\ LkIdle

OpenSpec == OpenSpecInit /\ [][OpenNext]_vars

SizingNext == ExecuteOpenLong \/ ExecuteOpenShort

SizingInit == ConcInit /\ SizeInit /\ AcctIdle /\ SemInit /\ DecIdle /\ OpenIdle /\ LkIdle

SizingSpec == SizingInit /\ [][SizingNext]_vars

LockInit == ConcInit /\ SizeIdle /\ AcctIdle /\ SemInit /\ DecIdle /\ OpenIdle /\ LkInit

LockSpec == LockInit /\ [][LockNext]_vars

Init == ConcInit /\ SizeIdle /\ AcctIdle /\ SemInit /\ DecIdle /\ OpenIdle /\ LkIdle

WorkerStep(a) == WorkerWake(a) \/ WorkerYield(a)

GateStep(a) == CycleAcquire(a) \/ CycleTimeout(a)

CycleStep(a) ==
    CycleLock(a) \/ CycleFetch(a) \/ CycleDecide(a) \/ CycleFinish(a) \/ CycleFail(a)

ManualStep(a) ==
    ManualCall(a) \/ ManualAcquire(a) \/ ManualTimeout(a) \/ ManualLock(a) \/ ManualFinish(a)

\* the account of the runs with skipped and failed cycles: 2 are deposited
\* after the agent's first cycle, and the unrealized P&L is then 1
SkipAccount ==
    IF acRun.cycle_count = 0
      THEN [total_wallet_balance |-> R(100), total_unrealized_profit |-> R(0)]
      ELSE [total_wallet_balance |-> R(103), total_unrealized_profit |-> R(1)]

\* the other agent, whose close_position_manual calls take the slot
OtherAgent == "a2"

\* agent a1's cycles, some of which time out at the gate while the other
\* agent holds the slot and some of which fail inside guard(), and restarts
SkipNext ==
    \/ AcctBeginCycle(SkipAccount)
    \/ AcctSkipCycle
    \/ AcctFailCycle
    \/ \E quantity \in AcctQuantities, price \in AcctOpenPrices,
          leverage \in AcctLeverages : AcctOpen("long", quantity, price, leverage)
    \/ \E price \in AcctClosePrices :
          AcctClose("long", [close_quantity |-> None, close_quantity_pct |-> None], price)
    \/ AcctSuspend
    \/ AcctLogDecision
    \/ AcctYield
    \/ AcctRestart
    \/ ManualStep(OtherAgent)

SkipSpec == AcctSpecInit /\ [][SkipNext]_vars

SchedulerStep ==
    \/ SchedulerStart
    \/ SchedulerStopBegin
    \/ SchedulerStopWorkers
    \/ SchedulerStopEnd
    \/ \E a \in Agents : TickerFire(a) \/ TickerWake(a)
    \/ \E a \in Agents : SchedulerTrigger(a) \/ TickerCancelled(a)
    \/ \E a \in Agents : WorkerStop(a) \/ WorkerStopReturn(a)

Next ==
    \/ SchedulerStep
    \/ \E a \in Agents : WorkerStep(a) \/ GateStep(a) \/ CycleStep(a)
    \/ \E a \in Agents : ManualStep(a)

Spec == Init /\ [][Next]_vars

\* the event loop runs every ready task, every awaited collaborator call
\* returns or raises, and a wait for the gate ends in a slot or a timeout
Fairness ==
    /\ \A a \in Agents : WF_vars(WorkerStep(a))
    /\ \A a \in Agents : WF_vars(GateStep(a))
    /\ \A a \in Agents : WF_vars(CycleStep(a))
    /\ \A a \in Agents : WF_vars(TickerCancelled(a))
    /\ \A a \in Agents : WF_vars(WorkerStop(a))
    /\ \A a \in Agents : WF_vars(WorkerStopReturn(a))
    /\ WF_vars(SchedulerStopWorkers)

LiveSpec == Spec /\ Fairness

GateNext ==
    \E c \in GateCallers :
        GuardEnter(c) \/ GuardRelease(c) \/ GuardResume(c) \/ GuardTimeout(c)

GateSpec == Init /\ [][GateNext]_vars

\* every holder leaves the body and releases, and a wait for the gate ends
\* in a slot or in the timeout
GateFairness ==
    /\ \A c \in GateCallers : WF_vars(GuardRelease(c))
    /\ \A c \in GateCallers : WF_vars(GuardResume(c) \/ GuardTimeout(c))

GateLiveSpec == GateSpec /\ GateFairness

\* ------------------------------------------------------------------------
\* Claims on the scheduler, the workers and the gate
\* ------------------------------------------------------------------------

\* C1: over any interleaving of trading cycles and manual closes sharing one
\* TradeExecutionService, the number of callers inside the guard() body
\* never exceeds the capacity.
C1_GateBound == InsideGuard <= GateCapacity

\* C1 witness: the gate is full with a manual close inside while a trading
\* cycle of some agent waits for the slot.
C1_Witness ==
    /\ InsideGuard = GateCapacity
    /\ \E a \in Agents : cyc[a] = "gate_wait"
    /\ \E b \in Agents : man[b] \in ManInside

\* C2: for one worker, a new trading_cycle never starts while a previous
\* one of the same worker is in flight, whenever triggers arrive.
C2_OneCycleInFlight == \A a \in Agents : inFlight[a] <= 1

\* C2 witness: a trigger has arrived while the worker's cycle is blocked on
\* the gate.
C2_Witness == \E a \in Agents : inFlight[a] = 1 /\ cyc[a] = "gate_wait" /\ trig[a]

\* C8: when stop() has returned no cycle of that worker is in flight and the
\* worker task is finished, and from the moment the stop flag is set no
\* cycle of that worker starts, whatever trigger() calls follow.
C8_StopIsTerminal ==
    /\ [](\A a \in Agents :
            stopPc[a] = "returned" =>
                inFlight[a] = 0 /\ cyc[a] = "none" /\ wpc[a] = "done")
    /\ [][\A a \in Agents :
            stopFlag[a] =>
                cycle_count'[a] = cycle_count[a] /\ inFlight'[a] <= inFlight[a]]_vars

\* C8 witness: stop() has returned for a worker that ran a cycle, and a
\* trigger is set on it.
C8_Witness ==
    \E a \in Agents : stopPc[a] = "returned" /\ cycle_count[a] >= 1 /\ trig[a]

\* C9: a worker that is blocked on the trigger when stop() is called wakes,
\* runs no further cycle and terminates, and every stop() call that awaits
\* the worker eventually returns.
C9_StopReturns ==
    /\ [][\A a \in Agents : stopFlag[a] => cycle_count'[a] = cycle_count[a]]_vars
    /\ \A a \in Agents :
          (stopFlag[a] /\ wpc[a] = "waiting") ~> (wpc[a] = "done")
    /\ \A a \in Agents :
          (stopPc[a] = "awaiting") ~> (stopPc[a] = "returned" /\ ~is_running[a])

\* C9 witness: stop() has returned for a worker that never started a cycle,
\* so it was blocked on the trigger when stop() was called.
C9_Witness ==
    \E a \in Agents : stopPc[a] = "returned" /\ batches[a] = 1 /\ cycle_count[a] = 0

\* C10: triggers coalesce: every batch of trigger() calls between two clears
\* of the flag starts exactly one cycle, and a trigger set while a cycle runs
\* leads to exactly one further cycle unless stop is requested (the flag is
\* cleared only by the wake-up that starts the next cycle).
C10_TriggersCoalesce ==
    /\ [](\A a \in Agents :
            /\ cycle_count[a] <= batches[a]
            /\ ~stopFlag[a] =>
                  batches[a] = cycle_count[a] + (IF trig[a] THEN 1 ELSE 0))
    /\ [][\A a \in Agents :
            (trig[a] /\ ~trig'[a] /\ ~stopFlag[a]) =>
                cycle_count'[a] = cycle_count[a] + 1]_vars
    /\ \A a \in Agents :
          (trig[a] /\ wpc[a] = "cycle")
              ~> ((wpc[a] = "cycle" /\ ~trig[a]) \/ stopFlag[a])

\* C10 witness: two trigger() calls were coalesced into one cycle, which has
\* ended with the flag clear.
C10_Witness ==
    \E a \in Agents :
        /\ trigCalls = 2 /\ batches[a] = 1 /\ cycle_count[a] = 1
        /\ \A b \in Agents \ {a} : batches[b] = 0
        /\ wpc[a] = "waiting" /\ ~trig[a] /\ ~stopFlag[a]

\* C11: an exception raised inside a cycle (by the exchange, the storage, the
\* decision module or the gate) is caught by the worker loop: the step that
\* ends the cycle leaves the scheduler, the tickers and the other workers
\* untouched, the _run task stays alive, the worker returns to waiting and
\* a trigger that is set after the failure still starts a cycle.
C11_CycleErrorContained ==
    /\ [][\A a \in Agents :
            (cyc[a] # "none" /\ cyc'[a] = "none") =>
                /\ wpc'[a] \in {"yield", "done"} \cup Caught
                /\ wpc'[a] = "done" => stopFlag[a]
                /\ schedPc' = schedPc /\ tick' = tick /\ stopPc' = stopPc
                /\ \A b \in Agents \ {a} : wpc'[b] = wpc[b]]_vars
    /\ [](\A a \in Agents : wpc[a] \in Caught => cyc[a] = "none" /\ is_running[a])
    /\ \A a \in Agents :
          (wpc[a] \in Caught) ~> (wpc[a] = "waiting" \/ stopFlag[a])
    /\ \A a \in Agents :
          (wpc[a] \in Caught /\ trig[a]) ~> (wpc[a] = "cycle" \/ stopFlag[a])

\* C11 witness: the first cycle of a worker raised, the exception was caught,
\* a trigger is set again and neither the scheduler nor the ticker stopped.
C11_Witness ==
    \E a \in Agents :
        /\ wpc[a] = "caught_error" /\ cycle_count[a] = 1 /\ trig[a]
        /\ schedPc = "running" /\ tick[a] = "sleeping"

\* C12: a wait for the gate that times out ends the cycle with an error: the
\* cycle passes through no fetch, decision or execution step, the slot
\* counter is not changed by the failing step and the cycle holds no slot,
\* the worker does not wait for the gate again inside the same iteration, and
\* a worker only starts waiting for the gate by consuming a set trigger.
C12_GateTimeout ==
    /\ [][\A a \in Agents :
            (cyc[a] = "gate_wait" /\ cyc'[a] \notin {"gate_wait", "locking"}) =>
                /\ GateCanTimeout
                /\ cyc'[a] = "none"
                /\ gateValue' = gateValue
                /\ wpc'[a] \in {"caught_timeout", "done"}
                /\ cycle_count'[a] = cycle_count[a]]_vars
    /\ [][\A a \in Agents :
            (cyc[a] # "gate_wait" /\ cyc'[a] = "gate_wait") =>
                /\ wpc[a] = "waiting" /\ trig[a] /\ ~trig'[a]
                /\ cycle_count'[a] = cycle_count[a] + 1]_vars
    /\ [](\A a \in Agents :
            wpc[a] = "caught_timeout" => cyc[a] = "none" /\ inFlight[a] = 0)
    /\ [](gateValue + InsideGuard = GateCapacity)

\* C12 witness: the first cycle of a worker ended by the gate's timeout while
\* the other agent's cycle still holds the only slot.
C12_Witness ==
    \E a \in Agents : \E b \in Agents \ {a} :
        /\ wpc[a] = "caught_timeout" /\ cycle_count[a] = 1
        /\ cyc[b] \in CycInside /\ gateValue = 0

\* stop() has begun to stop workers
WorkerShutdownBegun == \E a \in Agents : stopPc[a] # "none" \/ stopFlag[a]

\* C14: stop() cancels and awaits every ticker before it stops any worker:
\* once a worker's shutdown has begun every ticker task has ended, and an
\* ended ticker stays ended, so no ticker trigger follows. The ticker tasks'
\* cancellation errors do not keep stop() from stopping every worker: when
\* stop() has returned, every ticker task and every worker task has ended
\* and every worker.stop() has returned.
C14_StopOrder ==
    /\ [](WorkerShutdownBegun => \A b \in Agents : tick[b] = "done")
    /\ [][\A a \in Agents :
            /\ (tick[a] = "done" => tick'[a] = "done")
            /\ (tick[a] = "cancelling" => tick'[a] \in {"cancelling", "done"})
            /\ (tick[a] \in {"cancelling", "done"} /\ stopPc'[a] = stopPc[a]
                    /\ trigCalls' = trigCalls => trig'[a] = trig[a] \/ ~trig'[a])]_vars
    /\ [](schedPc = "stopped" =>
            \A a \in Agents :
                /\ tick[a] = "done" /\ wpc[a] = "done"
                /\ stopPc[a] = "returned" /\ ~is_running[a]
                /\ cyc[a] = "none")

\* C14 witness: stop() has returned on a scheduler whose tickers fired and
\* whose workers ran cycles.
C14_Witness ==
    /\ schedPc = "stopped"
    /\ trigCalls >= 1
    /\ \E a \in Agents : cycle_count[a] >= 1 /\ batches[a] >= 2

\* C15: a ticker calls trigger() before its first sleep, so a ticker that
\* sleeps or has slept has delivered a trigger; the only steps of a ticker
\* are trigger-then-sleep (from its start or from the end of a sleep) and the
\* end of one sleep, so one whole sleep lies between two ticker triggers; and
\* a trigger() call that is not a ticker's own iteration, such as
\* AgentScheduler.trigger, leaves every ticker where it is.
C15_FireThenSleep ==
    /\ [](\A a \in Agents : tick[a] \in {"sleeping", "ready"} => batches[a] >= 1)
    /\ [][\A a \in Agents :
            tick'[a] # tick[a] =>
                \/ tick[a] = "none" /\ tick'[a] = "start"
                \/ /\ tick[a] \in {"start", "ready"} /\ tick'[a] = "sleeping"
                   /\ trig'[a] /\ trigCalls' = trigCalls + 1
                \/ /\ tick[a] = "sleeping" /\ tick'[a] = "ready"
                   /\ trig' = trig /\ trigCalls' = trigCalls
                \/ tick'[a] \in {"cancelling", "done"}]_vars
    /\ [][trigCalls' # trigCalls =>
            \/ tick' = tick
            \/ \E a \in Agents :
                  /\ tick[a] \in {"start", "ready"}
                  /\ tick' = [tick EXCEPT ![a] = "sleeping"]]_vars

\* C15 witness: the ticker of one agent has triggered once and its sleep has
\* ended, one more trigger() call was made by AgentScheduler.trigger (the
\* other ticker has not run yet), and the first ticker is at its next turn.
C15_Witness ==
    \E a \in Agents : \E b \in Agents \ {a} :
        /\ tick[a] = "ready" /\ tick[b] = "start"
        /\ trigCalls = 2 /\ cycle_count[a] >= 1

\* the agent has a caller queued for the gate / inside the guard() body
SemRequesting(a) == \E c \in GateCallers : c[1] = a /\ semq[c] \in {"waiting", "granted"}

SemInside(a) == \E c \in GateCallers : c[1] = a /\ semq[c] = "inside"

\* C13: the gate is a fair queue: a caller obtains a slot only when no other
\* caller has been queued before it, and, every holder releasing eventually,
\* an agent that keeps requesting a slot while other agents keep obtaining
\* one obtains a slot again and again itself (no starvation).
C13_FairQueue ==
    /\ [][\A c \in GateCallers :
            (semq[c] # "inside" /\ semq'[c] = "inside") =>
                \/ semWaiters = <<>>
                \/ semWaiters[1] = c]_vars
    /\ \A a \in Agents :
          ( /\ []<>SemRequesting(a)
            /\ []<>(\E b \in Agents \ {a} : SemInside(b)) )
              => []<>SemInside(a)

\* the callers other than the trading cycle of agent a that are inside the
\* guard() body
OtherCallersInside(a) ==
    Cardinality({b \in Agents \ {a} : cyc[b] \in CycInside})
    + Cardinality({b \in Agents : man[b] \in ManInside})

\* C26: only the capital-committing phase is inside the gate: an agent whose
\* cycle is fetching account, positions and market data, or waiting for the
\* decision model, holds no execution slot, so every slot that is taken is
\* held by some other caller (and two agents can be fetching at once).
C26_FetchHoldsNoSlot ==
    \A a \in Agents :
        cyc[a] \in {"fetch", "decide"} => GateCapacity - gateValue <= OtherCallersInside(a)

\* ------------------------------------------------------------------------
\* Properties of the open-order sizing (SizingSpec)
\* ------------------------------------------------------------------------

\* the margin of the order that was submitted: quantity * price / leverage
SubmittedMargin == RDiv(RMul(szOut.quantity, szIn.price), R(szIn.decision.leverage))

\* availableBalance * cap / 100 with the cap chosen by "has positions"
SingleTradeLimit ==
    LET cap == IF Len(szIn.positions) > 0
                 THEN szIn.risk.max_single_trade_with_positions_pct
                 ELSE szIn.risk.max_single_trade_pct
    IN  RDiv(RMul(szIn.account.available_balance, R(cap)), R(100))

\* the quantity computed from the approved margin was below the minimum
\* quantity and the order was submitted with the minimum quantity
OrderAtMinQuantity ==
    /\ szOut.status = "order"
    /\ szOut.quantity = MinQuantity
    /\ RLt(szOut.max_trade_amount, szIn.decision.position_size_usd)

\* C4 (P2): whenever an open_long/open_short decision has resulted in an
\* order, the margin of the submitted order, quantity * price / leverage, is
\* at most availableBalance * cap / 100, where cap is the with-positions
\* percentage if the fetched positions list is non-empty and the no-positions
\* percentage otherwise.
C4_SingleTradeCap ==
    szOut.status = "order" => RLe(SubmittedMargin, SingleTradeLimit)

\* C4 witness: with positions open, a request above the single-trade limit
\* was cut down, the quantity computed from it was below the minimum, and the
\* order went out at the minimum quantity.
C4_Witness ==
    /\ OrderAtMinQuantity
    /\ szIn.positions # <<>>
    /\ RLt(R(0), SubmittedMargin)

\* the slack allowed on the total-position cap, 0.01 USD
TotalCapSlack == <<1, 100>>

\* C5 (P3): whenever sizing has ended with an order, the margin used by the
\* positions before the order plus the approved margin is at most
\* totalWalletBalance * maxTotalPositionPct / 100 (plus the slack), also when
\* the quantity was raised to the minimum quantity.
C5_TotalPositionCap ==
    szOut.status = "order" =>
        RLe(RAdd(TotalMarginUsed(szIn.positions), szOut.position_size_usd),
            RAdd(RDiv(RMul(szIn.account.total_wallet_balance,
                           R(szIn.risk.max_total_position_pct)), R(100)),
                 TotalCapSlack))

\* the margin the decision asked for
RequestedMargin == szIn.decision.position_size_usd

\* the request is above the single-trade limit
RequestAboveLimit == RLt(SingleTradeLimit, RequestedMargin)

\* the quantity that the single-trade limit buys: limit * leverage / price
LimitQuantity == RDiv(RMul(SingleTradeLimit, R(szIn.decision.leverage)), szIn.price)

\* C21: step 1 reduces and never aborts.  After every sizing run the margin
\* carried out of step 1 is availableBalance * cap / 100 when the request is
\* above that limit and the request itself otherwise; a reduced request that
\* fits the total-position limit and buys at least the minimum quantity ends
\* in an order for exactly the limit unless the final balance check stops it;
\* with available 1000, no positions, a 50 percent cap and a request of 800
\* the order goes out with an approved margin of 500.
C21_SingleTradeReduces ==
    szOut.status # "none" =>
        /\ szOut.after_single_limit =
              (IF RequestAboveLimit THEN SingleTradeLimit ELSE RequestedMargin)
        /\ ( /\ RequestAboveLimit
             /\ RLe(RAdd(TotalMarginUsed(szIn.positions), SingleTradeLimit),
                    szOut.max_total_margin)
             /\ RLe(MinQuantity, LimitQuantity) ) =>
                /\ szOut.status \in {"order", "abort_final"}
                /\ szOut.status = "order" => szOut.position_size_usd = SingleTradeLimit
        /\ ( /\ szIn.account.available_balance = R(1000)
             /\ szIn.positions = <<>>
             /\ szIn.risk.max_single_trade_pct = 50
             /\ RequestedMargin = R(800) ) =>
                /\ szOut.status = "order"
                /\ szOut.position_size_usd = R(500)

\* C21 witness: a request of 800 against 1000 available with no positions
\* and a 50 percent cap has been sized and ordered with a margin of 500.
C21_Witness ==
    /\ szIn.account.available_balance = R(1000)
    /\ szIn.positions = <<>>
    /\ szIn.risk.max_single_trade_pct = 50
    /\ RequestedMargin = R(800)
    /\ szOut.status = "order"
    /\ szOut.after_single_limit = R(500)
    /\ szOut.position_size_usd = R(500)

\* the quantity computed from the margin that left the total-position step
ComputedQuantity ==
    RDiv(RMul(szOut.after_total_limit, R(szIn.decision.leverage)), szIn.price)

\* the margin of an order of the minimum quantity: 0.001 * price / leverage
MinMarginNeeded == RDiv(RMul(<<1, 1000>>, szIn.price), R(szIn.decision.leverage))

\* sizing got as far as computing the quantity, and it was below 0.001
QuantityFloored ==
    /\ szOut.status \notin {"none", "abort_total"}
    /\ RLt(ComputedQuantity, <<1, 1000>>)

\* C22: when the computed quantity is below 0.001, the decision ends without
\* an order if 0.001 * price / leverage is above the available balance or
\* above availableBalance * cap / 100, and otherwise the order goes out with
\* quantity 0.001 and that amount as approved margin; at price 50000 and
\* leverage 10 the amount is 5, and an available balance of 3 ends it
\* without an order.
C22_MinimumQuantity ==
    QuantityFloored =>
        /\ IF RLt(szIn.account.available_balance, MinMarginNeeded)
              \/ RLt(SingleTradeLimit, MinMarginNeeded)
             THEN /\ szOut.status \in {"abort_min_balance", "abort_min_limit"}
                  /\ szOut.quantity = R(0)
             ELSE /\ szOut.status = "order"
                  /\ szOut.quantity = <<1, 1000>>
                  /\ szOut.position_size_usd = MinMarginNeeded
        /\ (szIn.price = R(50000) /\ szIn.decision.leverage = 10) =>
              /\ MinMarginNeeded = R(5)
              /\ szIn.account.available_balance = R(3) => szOut.status = "abort_min_balance"

\* C22 witness: at price 50000 and leverage 10 a short whose margin bought
\* less than 0.001 was ordered with quantity 0.001 and a margin of 5.
C22_Witness ==
    /\ QuantityFloored
    /\ szIn.action = "open_short"
    /\ szIn.price = R(50000)
    /\ szIn.decision.leverage = 10
    /\ RLt(szOut.after_total_limit, R(5))
    /\ szOut.status = "order"
    /\ szOut.quantity = <<1, 1000>>
    /\ szOut.position_size_usd = R(5)

\* what the total-position limit leaves: maxTotalMargin - totalMarginUsed
RemainingMargin == RSub(szOut.max_total_margin, szOut.total_margin_used)

\* the margin that left step 1 would take the total above maxTotalMargin
TotalLimitExceeded ==
    RLt(szOut.max_total_margin, RAdd(szOut.total_margin_used, szOut.after_single_limit))

\* C29: step 2 acts only when totalMarginUsed plus the margin from step 1 is
\* strictly greater than maxTotalMargin (the margin is untouched otherwise);
\* when it acts, the decision ends without an order exactly when
\* remaining = maxTotalMargin - totalMarginUsed is below 0.1, and with
\* remaining at or above 0.1 the margin that goes on is exactly remaining.
C29_TotalLimitTieBreak ==
    szOut.status # "none" =>
        /\ szOut.total_margin_used = TotalMarginUsed(szIn.positions)
        /\ szOut.max_total_margin =
              RDiv(RMul(szIn.account.total_wallet_balance,
                        R(szIn.risk.max_total_position_pct)), R(100))
        /\ IF ~TotalLimitExceeded
             THEN /\ szOut.status # "abort_total"
                  /\ szOut.after_total_limit = szOut.after_single_limit
             ELSE IF RLt(RemainingMargin, <<1, 10>>)
             THEN /\ szOut.status = "abort_total"
                  /\ szOut.quantity = R(0)
             ELSE /\ szOut.status # "abort_total"
                  /\ szOut.after_total_limit = RemainingMargin

\* C29 witness: the limit was exceeded with exactly 0.1 remaining, and the
\* order went out with a margin of 0.1.
C29_Witness ==
    /\ szOut.status = "order"
    /\ TotalLimitExceeded
    /\ RemainingMargin = <<1, 10>>
    /\ szOut.after_total_limit = <<1, 10>>
    /\ szOut.position_size_usd = <<1, 10>>

\* ------------------------------------------------------------------------
\* Properties of the ledger and the reconciler (AcctSpec)
\* ------------------------------------------------------------------------

\* the quantity the ledger holds for a side, 0 if it has no entry
LedgerQuantity(side) ==
    IF logger_module.open_positions[side] = None THEN R(0)
    ELSE logger_module.open_positions[side].quantity

\* opened minus closed on a side since the process started
RemainingQuantity(side) == RSub(hist.opened[side], hist.closed[side])

\* C3 (P1): for every side, the ledger quantity is the sum of the quantities
\* opened minus the sum of the quantities closed, it is never negative, and
\* the side has no ledger entry exactly when that remainder is at most 1e-9;
\* this also after a second open on a side that already has an entry.
C3_LedgerIsOpensMinusCloses ==
    \A side \in Sides :
        /\ RLe(R(0), LedgerQuantity(side))
        /\ (logger_module.open_positions[side] = None)
              <=> RLe(RemainingQuantity(side), RemainingEpsilon)
        /\ logger_module.open_positions[side] # None
              => LedgerQuantity(side) = RemainingQuantity(side)

\* the reconciled cycle is not the logger's first
Reconciled == recon # None /\ ~recon.first

\* grossEquity(t) - lastGrossEquity - (realizedChange + unrealizedDelta +
\* externalCashFlow) of the last reconciled cycle
IdentityResidual ==
    LET last_unrealized == IF recon.last_unrealized = None THEN R(0)
                           ELSE recon.last_unrealized
        equity_delta == RSub(recon.point.gross_equity, recon.last_equity)
        unrealized_delta == RSub(recon.point.unrealized_pnl, last_unrealized)
    IN  RSub(equity_delta,
             RAdd(RAdd(recon.realized_change, unrealized_delta),
                  recon.point.external_cash_flow))

C7_RestartEquivalence ==
    (acRun.restarted /\ recon # None) => recon.point = ghost.point

\* the EquityPoints that were emitted, written or not yet written
RecordedEquity == storage.equity \o PendingWrites(pending, "equity")

\* the last reconciliation emitted a point and one was emitted before it
HasPreviousPoint ==
    /\ Reconciled
    /\ Len(RecordedEquity) >= 2
    /\ RecordedEquity[Len(RecordedEquity)] = recon.point

\* the EquityPoint emitted before the last one
PreviousPoint == RecordedEquity[Len(RecordedEquity) - 1]

\* adjustedEquity(t) - adjustedEquity(t-1) - (realizedChange + unrealizedDelta)
AdjustedResidual ==
    RSub(RSub(recon.point.equity, PreviousPoint.equity),
         RAdd(recon.realized_change,
              RSub(recon.point.unrealized_pnl, PreviousPoint.unrealized_pnl)))

\* C23: in every reconciled cycle after the first, adjusted equity changes
\* from the previous EquityPoint by realizedChange + unrealizedDelta; in
\* particular, when gross equity rose by X with no realized and no unrealized
\* change, externalCashFlow is X, netDeposits grew by X and adjusted equity
\* is what it was.  (A computed cash flow below 1e-6, which the reconciler
\* drops, is allowed for.)
C23_DepositNeutral ==
    HasPreviousPoint =>
        /\ RLt(RAbs(AdjustedResidual), CASH_FLOW_EPSILON)
        /\ ( /\ recon.realized_change = R(0)
             /\ recon.point.unrealized_pnl = PreviousPoint.unrealized_pnl ) =>
                LET X == RSub(recon.point.gross_equity, PreviousPoint.gross_equity)
                IN  \/ /\ recon.point.external_cash_flow = X
                       /\ recon.point.net_deposits = RAdd(PreviousPoint.net_deposits, X)
                       /\ recon.point.equity = PreviousPoint.equity
                    \/ /\ RLt(RAbs(X), CASH_FLOW_EPSILON)
                       /\ recon.point.external_cash_flow = R(0)
                       /\ recon.point.net_deposits = PreviousPoint.net_deposits

\* grossEquity(t) - grossEquity(t-1) - (realizedChange + unrealizedDelta),
\* taken from the last two EquityPoints
UnexplainedDelta ==
    RSub(RSub(recon.point.gross_equity, PreviousPoint.gross_equity),
         RAdd(recon.realized_change,
              RSub(recon.point.unrealized_pnl, PreviousPoint.unrealized_pnl)))

\* C24: when the change of gross equity since the previous EquityPoint
\* equals realizedChange + unrealizedDelta, or differs from it by less than
\* 1e-6, the externalCashFlow emitted is exactly 0 and netDeposits is what
\* it was at the previous EquityPoint.
C24_NoCashFlowWhenExplained ==
    (HasPreviousPoint /\ RLt(RAbs(UnexplainedDelta), CASH_FLOW_EPSILON)) =>
        /\ recon.point.external_cash_flow = R(0)
        /\ recon.point.net_deposits = PreviousPoint.net_deposits

\* what was written so far, kept by the file backend and by the database
FileStorage == [storage EXCEPT !.type = "file"]
DatabaseStorage == [storage EXCEPT !.type = "database"]

\* the entry that _initialize_runtime_state takes from an equity read
LastEntry(history) == IF history = <<>> THEN None ELSE history[Len(history)]

\* C25: for the same sequence of trades, EquityPoints and decision logs
\* written, the file backend and the database backend give the core the same
\* answers: the trades read with and without a limit, the entry taken from
\* the equity history read with limit 1, the last cycle number; so the state
\* restored at start-up and the reconciliation of the next cycle
\* (realizedChange, the EquityPoint) are the same with either backend.
C25_BackendsAgree ==
    /\ GetTradesSync(FileStorage, 0) = GetTradesSync(DatabaseStorage, 0)
    /\ GetTradesSync(FileStorage, TradeReadLimit)
         = GetTradesSync(DatabaseStorage, TradeReadLimit)
    /\ LastEntry(GetEquityHistorySync(FileStorage, 1))
         = LastEntry(GetEquityHistorySync(DatabaseStorage, 1))
    /\ GetLastCycleNumberSync(FileStorage) = GetLastCycleNumberSync(DatabaseStorage)
    /\ InitializeRuntimeState(FileStorage) = InitializeRuntimeState(DatabaseStorage)
    /\ \A account \in AcctAccounts :
          LogDecision(logger_module, acRun.cycle_count, account, FileStorage)
            = LogDecision(logger_module, acRun.cycle_count, account, DatabaseStorage)

\* ------------------------------------------------------------------------
\* Properties of the close path (CloseSpec)
\* ------------------------------------------------------------------------

\* the trades that were recorded, written or not yet written
RecordedTrades == storage.trades \o PendingWrites(pending, "trade")

\* C16: every step in which an order changes the exchange position (an open
\* or a close of the cycle, or a manual close) is taken while the agent is
\* inside guard(), holding the slot; and a manual close asks the exchange for
\* the quantity that _execute_close resolves and clamps, and changes the
\* ledger and hands over the trade as record_close_position does, exactly
\* as the close decision of a cycle would from the same state.
C16_OrdersInsideGuard ==
    /\ [][dexPos' # dexPos => gateValue = GateCapacity - 1]_vars
    /\ [][acRun.pc = "manual" =>
          \A side \in Sides, decision \in AcctCloseDecisions, price \in AcctClosePrices :
            AcctManualClose(side, decision, price) =>
                LET position_amt == RAbs(dexPos)
                    q == CloseQuantity(decision, position_amt)
                    r == ExecuteClose(logger_module, dexPos, side, decision, price)
                    rc == RecordClosePosition(logger_module, side, price,
                                              r.closed_quantity)
                IN  /\ gateValue = GateCapacity - 1
                    /\ r.called =>
                          /\ r.quantity = q
                          /\ RAbs(RSub(dexPos', dexPos)) =
                                (IF q = None THEN position_amt ELSE q)
                          /\ logger_module' = rc.logger
                          /\ RecordedTrades' =
                                IF rc.trade = None THEN RecordedTrades
                                ELSE Append(RecordedTrades, rc.trade)
                    /\ ~r.called =>
                          /\ dexPos' = dexPos /\ logger_module' = logger_module
                          /\ RecordedTrades' = RecordedTrades]_vars

\* C16 witness: a manual partial close has just returned: it closed half of
\* the position, left the other half in the ledger, handed the trade over
\* for writing and released the slot.
C16_Witness ==
    /\ acRun.pc = "idle" /\ closeCalls = 1 /\ gateValue = GateCapacity
    /\ Len(PendingWrites(pending, "trade")) = 1
    /\ \E side \in Sides :
          /\ PendingWrites(pending, "trade")[1].side = side
          /\ PendingWrites(pending, "trade")[1].quantity = <<1, 1000>>
          /\ LedgerQuantity(side) = <<1, 1000>>
          /\ RAbs(dexPos) = <<1, 1000>>

\* the step is an _execute_close call of a cycle or of a manual close
CloseStep(side, decision, price) ==
    AcctClose(side, decision, price) \/ AcctManualClose(side, decision, price)

\* close_price - entry_price for a long, entry_price - close_price for a short
SignedMove(side, entry_price, close_price) ==
    IF side = "long" THEN RSub(close_price, entry_price)
    ELSE RSub(entry_price, close_price)

\* C17: every recorded trade has pnl_pct = move / entry_price * 100 and
\* pnl_usdt = move * quantity * leverage, where move is close_price -
\* entry_price for a long and entry_price - close_price for a short; and
\* the entry_price and leverage of a trade that a close records are those of
\* the ledger entry of that side before the close.
C17_PnlFromLedgerEntry ==
    /\ [](\A i \in 1..Len(RecordedTrades) :
            LET t == RecordedTrades[i]
                move == SignedMove(t.side, t.entry_price, t.close_price)
            IN  /\ t.pnl_pct = RMul(RDiv(move, t.entry_price), R(100))
                /\ t.pnl_usdt = RMul(RMul(move, t.quantity), R(t.leverage)))
    /\ [][acRun.pc \in {"cycle", "manual"} =>
          \A side \in Sides, decision \in AcctCloseDecisions, price \in AcctClosePrices :
            (CloseStep(side, decision, price) /\ RecordedTrades' # RecordedTrades) =>
                LET e == logger_module.open_positions[side]
                    t == RecordedTrades'[Len(RecordedTrades')]
                IN  /\ e # None
                    /\ t.side = side /\ t.close_price = price
                    /\ t.entry_price = e.entry_price
                    /\ t.leverage = e.leverage]_vars

\* C17 witness: a partial close of a short at a loss is recorded, and the
\* entry price of its ledger entry is not the entry price the exchange
\* reports for the position that is still open.
C17_Witness ==
    /\ PositionSide(dexPos) = "short"
    /\ \E i \in 1..Len(RecordedTrades) :
          LET t == RecordedTrades[i]
          IN  /\ t.side = "short"
              /\ t.pnl_usdt[1] < 0 /\ t.pnl_pct = R(-10)
              /\ t.entry_price # DexPosition(dexPos).entry_price

\* the fraction a close_quantity_pct of p stands for
PctFraction(p) == IF RLt(R(1), p) THEN RDiv(p, R(100)) ELSE p

\* the close decisions that carry only a close_quantity_pct above zero
PctDecisions ==
    {d \in AcctCloseDecisions :
        /\ d.close_quantity = None /\ d.close_quantity_pct # None
        /\ RLt(R(0), d.close_quantity_pct)}

\* C18: a close with close_quantity_pct = p > 0 that reaches the exchange
\* closes the fraction (p / 100 if p > 1, else p) of the ledger quantity of
\* the side, and leaves the rest of that quantity in the ledger.
C18_PctOfLedgerQuantity ==
    [][acRun.pc \in {"cycle", "manual"} =>
        \A side \in Sides, decision \in PctDecisions, price \in AcctClosePrices :
          ( /\ CloseStep(side, decision, price)
            /\ ExecuteClose(logger_module, dexPos, side, decision, price).called ) =>
              LET closing == RMul(PctFraction(decision.close_quantity_pct),
                                  LedgerQuantity(side))
              IN  /\ RAbs(RSub(dexPos', dexPos)) = closing
                  /\ LedgerQuantity(side)' = RSub(LedgerQuantity(side), closing)]_vars

\* the close decisions that carry a close_quantity or a close_quantity_pct
QuantifiedDecisions ==
    {d \in AcctCloseDecisions : d.close_quantity # None \/ d.close_quantity_pct # None}

\* the quantity a decision asks for of a position, clamped to [0, position_amt]
ClampedQuantity(decision, position_amt) ==
    LET resolved == IF decision.close_quantity # None THEN decision.close_quantity
                    ELSE RMul(PctFraction(decision.close_quantity_pct), position_amt)
    IN  RMin(position_amt, RMax(R(0), resolved))

\* C19: for a close with a close_quantity or a close_quantity_pct of a
\* position that the exchange has, the quantity is clamped to
\* [0, position_amt]; if the clamped quantity is negligible (as for a
\* close_quantity_pct <= 0 or a close_quantity <= 0) no order is sent and
\* the exchange position, the ledger and the trades stay as they are;
\* otherwise the exchange closes exactly the clamped quantity.
C19_ClampOrAbort ==
    [][acRun.pc \in {"cycle", "manual"} =>
        \A side \in Sides, decision \in QuantifiedDecisions, price \in AcctClosePrices :
          (CloseStep(side, decision, price) /\ PositionSide(dexPos) = side) =>
              LET clamped == ClampedQuantity(decision, RAbs(dexPos))
              IN  IF LeTiny(clamped)
                    THEN /\ dexPos' = dexPos
                         /\ logger_module' = logger_module
                         /\ RecordedTrades' = RecordedTrades
                    ELSE RAbs(RSub(dexPos', dexPos)) = clamped]_vars

\* the recorded trades are those before the step, followed by n new ones
TradesGrowBy(n) ==
    /\ Len(RecordedTrades') = Len(RecordedTrades) + n
    /\ \A i \in 1..Len(RecordedTrades) : RecordedTrades'[i] = RecordedTrades[i]

\* C20: in every reachable state, also after a restart, a close or partial
\* close that the exchange carried out appends exactly one trade to the
\* recorded trades, every other step appends none, and no recorded trade is
\* ever changed or removed.
C20_OneTradePerClose ==
    /\ [][acRun.pc \in {"cycle", "manual"} =>
          \A side \in Sides, decision \in AcctCloseDecisions, price \in AcctClosePrices :
            ( /\ CloseStep(side, decision, price)
              /\ ExecuteClose(logger_module, dexPos, side, decision, price).called ) =>
                TradesGrowBy(1)]_vars
    /\ [][TradesGrowBy(0) \/ TradesGrowBy(1)]_vars

\* C30: the pnl of each TradeRecord enters the realizedChange of exactly one
\* reconciliation: no trade is ever included twice, and once a cycle has been
\* logged every trade that was stored when it was logged has been included
\* (a trade still being written is left to the next cycle).
C30_RealizedOnce ==
    /\ \A k \in 1..Len(hist.counted) : hist.counted[k] <= 1
    /\ acRun.pc = "logged" =>
          \A k \in 1..Len(storage.trades) : hist.counted[k] = 1

\* the same within one process run on the file backend, where it holds
RealizedOnceOnFile ==
    (storage.type = "file" /\ ~acRun.restarted) => C30_RealizedOnce

\* ------------------------------------------------------------------------
\* Properties of the decision step (DecisionSpec)
\* ------------------------------------------------------------------------

\* C27: within one cycle a sizing abort or an exception raised while one
\* decision is executed skips only that decision: no decision makes the
\* exception leave the cycle, the decisions are executed one after the other
\* in the order of the list, and the cycle ends with every decision executed
\* and with its decision log and EquityPoint emitted.
C27_DecisionFailuresContained ==
    /\ decRun.pc # "raised"
    /\ decRun.pc \in {"execute", "done"} =>
          decRun.executed = [k \in 1..(decRun.i - 1) |-> k]
    /\ decRun.pc = "done" =>
          /\ decRun.logged
          /\ Len(decRun.executed) = Len(decRun.decisions)

\* every decision of the list is a JSON object
ObjectsOnly == \A k \in 1..Len(decRun.decisions) : decRun.decisions[k] = "dict"

\* the same for lists of objects, where it holds
FailuresContainedForObjects == ObjectsOnly => C27_DecisionFailuresContained

\* some part of the text is a JSON array
HasParseableArray(text) ==
    \E i \in 1..Len(text) : \E j \in i..Len(text) :
        LET v == JsonLoads(SubSeq(text, i, j))
        IN  v.ok /\ v.kind = "list"

\* C28: when the output of the decision model contains no parseable JSON
\* array, parsing raises nothing and gives the empty list: no order is
\* placed and the ledger is not changed.
C28_MalformedIsEmpty ==
    (decRun.pc # "parse" /\ ~HasParseableArray(llmOut)) =>
        /\ decRun.pc # "raised"
        /\ decRun.decisions = <<>>
        /\ decRun.orders = 0
        /\ decRun.recorded = 0

\* C28 witness: an output with brackets around text that is not JSON was
\* parsed to the empty list and the cycle went on to log its decision.
C28_Witness ==
    /\ ~HasParseableArray(llmOut)
    /\ Find(llmOut, "[") # 0
    /\ RFind(llmOut, "]") > Find(llmOut, "[")
    /\ decRun.pc = "done"
    /\ decRun.logged
    /\ decRun.decisions = <<>>
    /\ decRun.orders = 0

\* ------------------------------------------------------------------------
\* Both sides of the open-order sizing (SizingSpec)
\* ------------------------------------------------------------------------

\* what _execute_open_long arrives at for the inputs of the run
LongSizing ==
    OpenLongSizing(szIn.decision, szIn.account, szIn.positions, szIn.price, szIn.risk)

\* what _execute_open_short arrives at for the inputs of the run
ShortSizing ==
    OpenShortSizing(szIn.decision, szIn.account, szIn.positions, szIn.price, szIn.risk)

\* C33: for the same leverage, requested margin, account snapshot,
\* positions, price and risk configuration, open_long and open_short take
\* the same abort/approve decision and approve the same quantity and margin.
C33_SidesSizeAlike ==
    szOut # NoSizing =>
        /\ szOut.status = LongSizing.status
        /\ szOut.status = ShortSizing.status
        /\ szOut.quantity = LongSizing.quantity
        /\ szOut.quantity = ShortSizing.quantity
        /\ szOut.position_size_usd = LongSizing.position_size_usd
        /\ szOut.position_size_usd = ShortSizing.position_size_usd

\* C33 witness: a short was sized with positions open, the single-trade
\* limit reduced the request and the order was approved.
C33_Witness ==
    /\ szOut # NoSizing
    /\ szIn.action = "open_short"
    /\ szIn.positions # <<>>
    /\ szOut.status = "order"
    /\ RLt(szOut.after_single_limit, szIn.decision.position_size_usd)

\* ------------------------------------------------------------------------
\* Properties of the reconciler over a whole run (AcctSpec)
\* ------------------------------------------------------------------------

\* sum(p["external_cash_flow"] for p in points)
RECURSIVE SumFlows(_)
SumFlows(points) ==
    IF points = <<>> THEN R(0)
    ELSE RAdd(Head(points).external_cash_flow, SumFlows(Tail(points)))

\* the EquityPoints emitted since the DecisionLogger was constructed
EmittedSinceStartup == DropFirst(RecordedEquity, hist.startup_points)

\* C31: every emitted EquityPoint has adjustedEquity = grossEquity -
\* netDeposits, and netDeposits is always its value at startup plus the sum
\* of the externalCashFlow of the EquityPoints emitted since startup.
C31_DepositsAreSumOfFlows ==
    /\ \A k \in 1..Len(RecordedEquity) :
          RecordedEquity[k].equity =
              RSub(RecordedEquity[k].gross_equity, RecordedEquity[k].net_deposits)
    /\ logger_module.net_deposits =
          RAdd(hist.startup_deposits, SumFlows(EmittedSinceStartup))

\* C31 witness: after a restart that loaded net deposits other than 0, a
\* point with a cash flow other than 0 has been emitted.
C31_Witness ==
    /\ acRun.restarted
    /\ hist.startup_deposits # R(0)
    /\ \E k \in 1..Len(EmittedSinceStartup) :
          EmittedSinceStartup[k].external_cash_flow # R(0)
    /\ logger_module.net_deposits # hist.startup_deposits

\* C32: on an account whose gross equity changes only by the realized P&L
\* of the agent's closes and by the change of unrealized P&L (NoFlowSpec),
\* every EquityPoint has externalCashFlow = 0 and netDeposits stays what it
\* was at the start.
C32_NoFlowNoDeposit ==
    /\ \A k \in 1..Len(RecordedEquity) :
          /\ RecordedEquity[k].external_cash_flow = R(0)
          /\ RecordedEquity[k].net_deposits = hist.startup_deposits
    /\ logger_module.net_deposits = hist.startup_deposits

\* ------------------------------------------------------------------------
\* Cycles that are skipped or fail (SkipSpec)
\* ------------------------------------------------------------------------

\* the decision logs that were emitted, written or not yet written
RecordedDecisions == storage.decisions \o PendingWrites(pending, "decision")

\* the cycle numbers of the records grow along the sequence
CyclesIncrease(records) ==
    \A i, j \in 1..Len(records) : i < j => records[i].cycle < records[j].cycle

\* the first trading_cycle call since the agent was constructed is inside
\* guard() and has not logged yet
InFirstCycleSinceStartup ==
    acRun.pc = "cycle" /\ acRun.cycle_count = hist.startup_cycle + 1

CycleSkipped ==
    /\ acRun.pc = "idle"
    /\ acRun'.pc = "idle"
    /\ acRun'.cycle_count = acRun.cycle_count + 1

\* a trading_cycle call left guard() without reaching log_decision
CycleFailed == acRun.pc = "cycle" /\ acRun'.pc = "idle"

\* a trading_cycle call ran log_decision and left guard()
CycleCompleted == acRun.pc = "cycle" /\ acRun'.pc = "logged"

\* netDeposits, lastGrossEquity, lastUnrealizedPnl, lastLoggedTradeIndex and
\* lastAccountSnapshot
ReconcilerState ==
    <<logger_module.net_deposits, logger_module.last_equity,
      logger_module.last_unrealized, logger_module.last_logged_trade_index,
      acRun.last_account_snapshot>>

\* C35: a cycle that completes emits exactly one EquityPoint; a cycle that
\* is skipped or that fails before logging emits none and leaves
\* netDeposits, lastGrossEquity, lastUnrealizedPnl, lastLoggedTradeIndex and
\* lastAccountSnapshot as they were; nothing else emits an EquityPoint.
C35_OnePointPerCompletedCycle ==
    [][ /\ CycleCompleted =>
              /\ Len(RecordedEquity') = Len(RecordedEquity) + 1
              /\ RecordedEquity'[Len(RecordedEquity')].cycle = acRun.cycle_count
        /\ (CycleSkipped \/ CycleFailed) =>
              /\ RecordedEquity' = RecordedEquity
              /\ ReconcilerState' = ReconcilerState
        /\ ~CycleCompleted => RecordedEquity' = RecordedEquity ]_vars

\* C35 witness: after a completed cycle that counted a trade, two cycles
\* have ended without being logged, the later of which had fetched another
\* snapshot and failed: two cycle numbers are without EquityPoint.
C35_Witness ==
    /\ acRun.pc = "idle"
    /\ ~acRun.restarted
    /\ pending = <<>>
    /\ logger_module.last_equity # None
    /\ logger_module.last_logged_trade_index > 0
    /\ acRun.last_account_snapshot # None
    /\ acRun.last_account_snapshot # acRun.account
    /\ Len(storage.equity) + 2 <= acRun.cycle_count

\* ------------------------------------------------------------------------
\* The ledger entry of an open decision (OpenSpec)
\* ------------------------------------------------------------------------

\* the ledger entry record_open_position writes for the approved order
ApprovedEntry ==
    [entry_price |-> szIn.price, quantity |-> szOut.quantity,
     leverage |-> szIn.decision.leverage]

\* the sizing gave the decision up
SizingAborted == szOut # NoSizing /\ szOut.status # "order"

\* C36: an open decision creates or changes the ledger entry of its side
\* only after the exchange's open order call has returned: while the order
\* has not returned, if it raised, or if the sizing aborted, the ledger is
\* what it was and no protective order has been asked for; once written,
\* the entry stays as written whether or not the protective orders could be
\* placed, and the other side's entry is never touched.
C36_LedgerAfterOrder ==
    /\ opRun.pc = "sizing" =>
          /\ opRun.logger = opRun.before
          /\ opRun.order_calls = 0 /\ opRun.protective_calls = 0
    /\ SizingAborted => opRun.pc = "sizing"
    /\ opRun.pc = "raised" =>
          /\ opRun.logger = opRun.before
          /\ opRun.orders_filled = 0 /\ opRun.protective_calls = 0
    /\ opRun.pc \in {"recorded", "done"} =>
          /\ opRun.orders_filled = 1
          /\ opRun.logger.open_positions[OpenSide(szIn.action)] = ApprovedEntry
          /\ \A side \in Sides \ {OpenSide(szIn.action)} :
                opRun.logger.open_positions[side] = opRun.before.open_positions[side]
    /\ opRun.pc = "recorded" => opRun.protective_calls = 0

\* C36 witness: the order was filled over an earlier entry of the same side,
\* the entry was replaced, and placing the protective orders failed.
C36_Witness ==
    /\ opRun.pc = "done"
    /\ opRun.before.open_positions[OpenSide(szIn.action)] = EarlierEntry
    /\ opRun.logger.open_positions[OpenSide(szIn.action)] = ApprovedEntry
    /\ opRun.protective_calls = 1
    /\ opRun.protective_placed = 0

\* ------------------------------------------------------------------------
\* Properties of the gate, the trading locks and the LLM slots (LockSpec, Spec)
\* ------------------------------------------------------------------------

\* agent a's request waits in request_slot()
LlmWaiting(a) == lkPc[LkCycle(a)] = "llm_wait" /\ lkLlm[FactoryOf(a)] = 0

\* agent a's request holds a slot of the factory
LlmHolding(a) == lkPc[LkCycle(a)] = "llm"

\* C37: decision-model calls are limited separately per provider: a request
\* to one provider never waits for a slot that a request to another
\* provider occupies.
C37_SlotsPerProvider ==
    \A a, b \in Agents :
        (LlmWaiting(a) /\ LlmHolding(b) /\ FactoryOf(a) = FactoryOf(b))
            => lkCfg.provider[a] = lkCfg.provider[b]

\* every slot of the factory is accounted for, whatever the providers
LlmSlotsConserved ==
    \A f \in DOMAIN lkLlm :
        lkLlm[f] + Cardinality({a \in Agents : LlmHolding(a) /\ FactoryOf(a) = f})
            = lkCfg.max_concurrent_requests

\* C38: the slots of the gate are never leaked: whether the guarded section
\* ends normally or by an exception, and whether or not an acquire timed
\* out, free slots + callers inside guard() = N in every state.
C38_SlotsConserved == gateValue + InsideGuard = GateCapacity

\* C38 witness: a cycle has failed inside guard() and a caller has timed out
\* at the gate, and the slot is held again.
C38_Witness ==
    /\ \E a \in Agents : wpc[a] = "caught_error"
    /\ \E a \in Agents : wpc[a] = "caught_timeout"
    /\ gateValue = 0
    /\ InsideGuard = GateCapacity

\* the semaphore with its queue: a slot is free, held by a caller inside
\* guard(), or on its way to the waiter it was handed to
SemSlotsConserved ==
    semValue + Cardinality({c \in GateCallers : semq[c] \in {"inside", "granted"}})
        = GateCapacity

\* the same with a gate of one or two slots, cycles and manual closes alike
LkSlotsConserved ==
    lkGate + Cardinality({c \in GateCallers :
                             lkPc[c] \notin {"idle", "gate_wait"}})
        = lkCfg.max_concurrent_trades

\* a call that has started
LkStarted(c) == lkPc[c] # "idle"

\* C39: no state is a deadlock: as long as a cycle or a manual close has
\* started and not finished, some started call can take a step, whether the
\* agents share one trading lock or each has its own.
C39_NoDeadlock ==
    (\E c \in GateCallers : LkStarted(c)) =>
        \E c \in GateCallers : LkStarted(c) /\ ENABLED LkAdvance(c)

\* C39 witness: with every resource contended, one cycle waits for the LLM
\* slot another cycle holds and both manual closes wait at the gate, whose
\* slots the two cycles hold.
C39_Witness ==
    /\ \E a, b \in Agents : LlmWaiting(a) /\ LlmHolding(b)
    /\ \A a \in Agents : lkPc[LkManual(a)] = "gate_wait"
    /\ lkGate = 0

\* a manual close waits for the trading lock another manual close holds
ManualWaitsForLock ==
    \E a, b \in Agents :
        /\ lkPc[LkManual(a)] = "locking"
        /\ lkPc[LkManual(b)] = "closing"
        /\ LockOf(a) = LockOf(b)

\* agent a's trading_cycle is inside guard(), past the lock
CycleInFlight(a) == lkPc[LkCycle(a)] \in {"fetch", "llm_wait", "llm", "execute"}

\* agent a's close_position_manual runs _execute_close
ManualClosing(a) == lkPc[LkManual(a)] = "closing"

\* C40: whatever the capacity of the gate, a manual close of an agent never
\* runs its close path while a trading cycle of the same agent is in flight.
C40_CloseExcludesCycle ==
    \A a \in Agents : ~(ManualClosing(a) /\ CycleInFlight(a))

\* with a gate of one slot the close path and the cycle exclude each other
CloseExcludesCycleAtOne ==
    lkCfg.max_concurrent_trades = 1 => C40_CloseExcludesCycle

====
